---- MODULE Spec2Model ----
(***************************************************************************)
(* Acoustic front-end of xmpx/aps: the STFT / iSTFT engine                 *)
(* (src/src/asr/feats/utils.py) and the FeatureTransform pipeline          *)
(* (src/asr/feats/asr.py).                                                 *)
(*                                                                         *)
(* Numbers.  The code computes in float32; the model computes the same     *)
(* sums exactly.  A DFT of size B needs cos and sin of multiples of        *)
(* 2*pi/B; for B in {1,2,3,4,6} these are 0, +-1/2, +-1 and                *)
(* +-sqrt(3)/2, so every kernel tap is an integer mantissa times a unit:   *)
(*     real plane :  m / den * B^(-e/2)                                    *)
(*     imag plane :  m * sqrt(R) / den * B^(-e/2)      R in {1, 3}         *)
(* A product of two imaginary-plane numbers carries the rational factor R. *)
(* The STFT value model is therefore exact for frame lengths 1..4.         *)
(***************************************************************************)
EXTENDS Integers, Sequences, FiniteSets, TLC

VARIABLES
    args,      \* settings of the current forward_stft / inverse_stft calls
    wav,       \* waveform tensor handed to forward_stft
    fwd,       \* what forward_stft returned or raised
    inv,       \* what inverse_stft returned or raised
    eng,       \* an STFTBase object (STFT or iSTFT layer)
    nf,        \* what the last STFTBase.num_frames call returned or raised
    pipe,      \* a FeatureTransform object, or the failure of its constructor
    out,       \* what the last FeatureTransform.forward call returned or raised
    stg,       \* a call of one stage or helper on a small tensor, with its result
    hist       \* the calls made on the pipeline of pipe so far, oldest first

vars == <<args, wav, fwd, inv, eng, nf, pipe, out, stg, hist>>

None == [st |-> "none"]

Raise(kind, info) == [st |-> "raise", err |-> kind, info |-> info]

Some(v) == [st |-> "some", val |-> v]

-----------------------------------------------------------------------------
(* Bounds of the model.                                                    *)

\* longest waveform, in samples
MaxS == 5

\* frame lengths whose FFT sizes have exactly representable twiddles
FrameLens == {1, 2, 3, 4}

\* frame hops; hops above the frame length leave uncovered output samples
FrameHops == {1, 2, 3}

\* sample values of the waveforms
SampleVals == {0, 1}

-----------------------------------------------------------------------------
(* Integer helpers.                                                        *)

RECURSIVE SumSeq(_)
SumSeq(s) == IF s = <<>> THEN 0 ELSE Head(s) + SumSeq(Tail(s))

RECURSIVE ProdSeq(_)
ProdSeq(s) == IF s = <<>> THEN 1 ELSE Head(s) * ProdSeq(Tail(s))

RECURSIVE IPow(_, _)
IPow(b, n) == IF n <= 0 THEN 1 ELSE b * IPow(b, n - 1)

Abs(x) == IF x < 0 THEN -x ELSE x

\* 2 * cos(2*pi*j/B) for B in {1,2,3,4,6}
C2(B, j) ==
    LET r == j % B IN
    CASE B = 1 -> 2
      [] B = 2 -> IF r = 0 THEN 2 ELSE -2
      [] B = 3 -> IF r = 0 THEN 2 ELSE -1
      [] B = 4 -> <<2, 0, -2, 0>>[r + 1]
      [] B = 6 -> <<2, 1, -1, -2, -1, 1>>[r + 1]

\* the radicand R of the sine unit: sin(2*pi*j/B) = S2(B,j) * sqrt(R) / 2
Radicand(B) == IF B \in {3, 6} THEN 3 ELSE 1

\* 2 * sin(2*pi*j/B) / sqrt(Radicand(B)) for B in {1,2,3,4,6}
S2(B, j) ==
    LET r == j % B IN
    CASE B = 1 -> 0
      [] B = 2 -> 0
      [] B = 3 -> <<0, 1, -1>>[r + 1]
      [] B = 4 -> <<0, 2, 0, -2>>[r + 1]
      [] B = 6 -> <<0, 1, 1, 0, -1, -1>>[r + 1]

-----------------------------------------------------------------------------
(* init_window: the window coefficients num[n] / den, n = 1..frame_len.    *)
(* torch builds periodic windows, and a window of length 1 is <<1>>.       *)

WindowNames == {"bartlett", "hann", "hamm", "blackman", "rect", "sqrthann"}

\* th.hann_window: 0.5 - 0.5*cos(2*pi*n/N)
hann_window(N) ==
    IF N = 1 THEN [num |-> <<1>>, den |-> 1]
    ELSE [num |-> [i \in 1..N |-> 2 - C2(N, i - 1)], den |-> 4]

\* th.hamming_window: 0.54 - 0.46*cos(2*pi*n/N)
hamming_window(N) ==
    IF N = 1 THEN [num |-> <<1>>, den |-> 1]
    ELSE [num |-> [i \in 1..N |-> 54 - 23 * C2(N, i - 1)], den |-> 100]

\* th.blackman_window: 0.42 - 0.5*cos(2*pi*n/N) + 0.08*cos(4*pi*n/N)
blackman_window(N) ==
    IF N = 1 THEN [num |-> <<1>>, den |-> 1]
    ELSE [num |-> [i \in 1..N |-> 42 - 25 * C2(N, i - 1) + 4 * C2(N, 2 * (i - 1))],
          den |-> 100]

\* th.bartlett_window: 1 - |2n/N - 1|
bartlett_window(N) ==
    IF N = 1 THEN [num |-> <<1>>, den |-> 1]
    ELSE [num |-> [i \in 1..N |-> N - Abs(2 * (i - 1) - N)], den |-> N]

\* th.ones
ones(N) == [num |-> [i \in 1..N |-> 1], den |-> 1]

\* the exact square root of num/den when it is rational, else -1
ExactSqrt(num, den) ==
    LET c == {r \in 0..num : r * r * den = num} IN
    IF c = {} THEN -1 ELSE CHOOSE r \in c : TRUE

\* th.hann_window(frame_len) ** 0.5
sqrthann(N) ==
    LET h == hann_window(N) IN
    [num |-> [i \in 1..N |-> ExactSqrt(h.num[i], h.den)], den |-> 1]

\* the (family, length) pairs whose coefficients the model represents exactly
ExactWindow(wnd, N) ==
    wnd = "sqrthann" => \A i \in 1..N : sqrthann(N).num[i] >= 0

\* init_window taking every unknown name for "hann"
init_window_lenient(wnd, frame_len) ==
    LET c == CASE wnd = "sqrthann" -> sqrthann(frame_len)
               [] wnd = "hamm"     -> hamming_window(frame_len)
               [] wnd = "blackman" -> blackman_window(frame_len)
               [] wnd = "bartlett" -> bartlett_window(frame_len)
               [] wnd = "rect"     -> ones(frame_len)
               [] OTHER            -> hann_window(frame_len)
    IN [st |-> "ok", num |-> c.num, den |-> c.den]

init_window(wnd, frame_len) ==
    IF wnd \notin {"bartlett", "hann", "hamm", "blackman", "rect", "sqrthann"}
    THEN Raise("Unknown window type", wnd)
    ELSE LET c == CASE wnd = "sqrthann" -> sqrthann(frame_len)
                    [] wnd = "hann"     -> hann_window(frame_len)
                    [] wnd = "hamm"     -> hamming_window(frame_len)
                    [] wnd = "blackman" -> blackman_window(frame_len)
                    [] wnd = "bartlett" -> bartlett_window(frame_len)
                    [] wnd = "rect"     -> ones(frame_len)
         IN [st |-> "ok", num |-> c.num, den |-> c.den]

-----------------------------------------------------------------------------
(* init_kernel: the [2B, 1, frame_len] DFT kernel.                         *)

RECURSIVE Pow2From(_, _)
Pow2From(p, n) == IF p >= n THEN p ELSE Pow2From(2 * p, n)

\* 2 ** math.ceil(math.log2(frame_len))
NextPow2(frame_len) == Pow2From(1, frame_len)

\* FFT points
FFTSize(frame_len, round_pow_of_two) ==
    IF round_pow_of_two THEN NextPow2(frame_len) ELSE frame_len

\* ScaleExp dividing the inverse kernel by B whether normalized or not
ScaleExpTwice(normalized, inverse) ==
    (IF normalized THEN 1 ELSE 0) + (IF inverse THEN 2 ELSE 0)

\* the kernel's scale is B^(-e/2): I/S with S = sqrt(B) when normalized,
\* and K/B when inverse and not normalized
ScaleExp(normalized, inverse) ==
    (IF normalized THEN 1 ELSE 0) + (IF inverse /\ ~normalized THEN 2 ELSE 0)

init_kernel(frame_len, frame_hop, window, round_pow_of_two, normalized, inverse) ==
    LET B == FFTSize(frame_len, round_pow_of_two) IN
    [B     |-> B,
     shape |-> <<2 * B, 1, frame_len>>,
     e     |-> ScaleExp(normalized, inverse),
     w     |-> window]

\* mantissa of tap n (0-based) of plane c (0-based): cos planes first, then
\* -sin planes (th.fft of the identity), each times the window
KernelTap(K, c, n) ==
    IF c < K.B THEN C2(K.B, c * n) * K.w.num[n + 1]
    ELSE -S2(K.B, (c - K.B) * n) * K.w.num[n + 1]

-----------------------------------------------------------------------------
(* Tensors.  A waveform tensor is its shape and its rows: the leading axes *)
(* flattened (wav.view(-1, 1, S)), each row a sequence of S samples.       *)

Flat(shape) == ProdSeq(SubSeq(shape, 1, Len(shape) - 1))

LastDim(shape) == shape[Len(shape)]

\* Slide, stopping one position early
RECURSIVE SlideShort(_, _, _, _)
SlideShort(S, W, hop, t) ==
    IF t * hop + W < S THEN 1 + SlideShort(S, W, hop, t + 1) ELSE 0

\* number of positions of a length-W kernel sliding by hop over S samples,
\* counted from position t on (tf.conv1d, padding 0)
RECURSIVE Slide(_, _, _, _)
Slide(S, W, hop, t) == IF t * hop + W <= S THEN 1 + Slide(S, W, hop, t + 1) ELSE 0

\* one output of tf.conv1d: plane c (0-based), frame t (0-based) of a row
Conv1d(row, K, c, t, hop) ==
    SumSeq([i \in 1..K.shape[3] |-> row[t * hop + i] * KernelTap(K, c, i - 1)])

OutputFormats == {"polar", "complex", "real"}

\* the checks of _forward_stft and the shape N x (C) x F x T of what it
\* returns: the rank check, tf.conv1d's size check, the one-sided cut
ForwardShape(shape, kernel, output, frame_hop, onesided) ==
    LET wav_dim == Len(shape)
        S == LastDim(shape)
        W == kernel.shape[3]
        T == Slide(S, W, frame_hop, 0)
        num_bins == IF onesided THEN kernel.shape[1] \div 4 + 1
                    ELSE kernel.shape[1] \div 2
        lead == IF wav_dim = 3 THEN <<shape[1], shape[2]>> ELSE <<shape[1]>>
    IN
    IF output \notin {"polar", "complex", "real"}
    THEN Raise("ValueError: Unknown output format", output)
    ELSE IF wav_dim \notin {2, 3}
    THEN Raise("STFT expect 2D/3D tensor", wav_dim)
    ELSE IF S < W
    THEN Raise("conv1d: kernel size greater than input size", <<S, W>>)
    ELSE [st |-> "ok", shape |-> lead \o <<num_bins, T>>]

\* _forward_stft with output = "complex": (real, imag), each N x (C) x F x T,
\* as mantissas in units of sqrt(R)^[imag] / den * B^(-e/2)
_forward_stft(w, kernel, output, frame_hop, onesided) ==
    LET c == ForwardShape(w.shape, kernel, output, frame_hop, onesided)
        B == kernel.shape[1] \div 2
        num_bins == c.shape[Len(c.shape) - 1]
        T == LastDim(c.shape)
    IN
    IF c.st = "raise" THEN c
    ELSE [st    |-> "ok",
          shape |-> c.shape,
          real  |-> [r \in 1..Len(w.rows) |-> [k \in 1..num_bins |->
                        [t \in 1..T |-> Conv1d(w.rows[r], kernel, k - 1, t - 1, frame_hop)]]],
          imag  |-> [r \in 1..Len(w.rows) |-> [k \in 1..num_bins |->
                        [t \in 1..T |-> Conv1d(w.rows[r], kernel, B + k - 1, t - 1, frame_hop)]]],
          den   |-> 2 * kernel.w.den,
          e     |-> kernel.e]

RECURSIVE GCD(_, _)
GCD(a, b) == IF b = 0 THEN a ELSE GCD(b, a % b)

\* a / b for a = a.num/a.den, b = b.num/b.den (same scale exponent e);
\* a zero divisor gives den = 0, the model's Inf / NaN
RatDiv(a, b) ==
    LET g == GCD(a.den, b.den) IN
    [num |-> a.num * (b.den \div g), den |-> (a.den \div g) * b.num, e |-> a.e]

\* GuardedDiv without the guard: s / norm on every sample
UnguardedDiv(s, norm) == RatDiv(s, norm)

\* th.where(norm == 0, s, s / norm) on one sample
GuardedDiv(s, norm) == IF norm.num = 0 THEN s ELSE RatDiv(s, norm)

\* range(kernel.shape[0] // 4 - 1, 0, -1)
ReverseIdx(kernel) ==
    LET q == kernel.shape[1] \div 4 IN
    IF q - 1 >= 1 THEN [i \in 1..(q - 1) |-> q - i] ELSE <<>>

\* real = th.cat([real, real[:, reverse]], 1); imag takes sign = -1
Mirror(bins, reverse, sign) ==
    bins \o [i \in 1..Len(reverse) |-> [t \in 1..Len(bins[1]) |->
                sign * bins[reverse[i] + 1][t]]]

\* the frames t (0-based) whose window covers output sample n (0-based)
Covering(n, T, W, hop) == {t \in 0..(T - 1) : t * hop <= n /\ n < t * hop + W}

RECURSIVE SumSet(_, _)
SumSet(f, S) ==
    IF S = {} THEN 0
    ELSE LET x == CHOOSE y \in S : TRUE IN f[x] + SumSet(f, S \ {x})

\* one output of tf.conv_transpose1d(packed, kernel, stride): sample n of a row;
\* an imag plane times an imag tap carries the factor R
ConvT1d(re, im, K, n, T, hop) ==
    LET R == Radicand(K.B)
        cov == Covering(n, T, K.shape[3], hop)
        term == [t \in cov |->
                   SumSeq([k \in 1..K.B |->
                       re[k][t + 1] * KernelTap(K, k - 1, n - t * hop)
                       + R * im[k][t + 1] * KernelTap(K, K.B + k - 1, n - t * hop)])]
    IN SumSet(term, cov)

\* tf.conv_transpose1d(win**2, I, stride): the overlap-added squared window
NormAt(window, n, T, hop) ==
    LET cov == Covering(n, T, Len(window.num), hop)
        sq == [t \in cov |-> window.num[n - t * hop + 1] * window.num[n - t * hop + 1]]
    IN SumSet(sq, cov)

\* _inverse_stft with input = "complex"; raw, norm and the real and imag
\* planes that were packed are kept beside s
_inverse_stft(transform, kernel, window, input, frame_hop, onesided) ==
    LET imag_dim == Len(transform.shape)
        T == LastDim(transform.shape)
        W == Len(window.num)
        L == (T - 1) * frame_hop + W
        reverse == ReverseIdx(kernel)
        real == [r \in 1..Len(transform.real) |->
                   IF onesided THEN Mirror(transform.real[r], reverse, 1)
                   ELSE transform.real[r]]
        imag == [r \in 1..Len(transform.imag) |->
                   IF onesided THEN Mirror(transform.imag[r], reverse, -1)
                   ELSE transform.imag[r]]
        planes == 2 * Len(real[1])
        raw == [r \in 1..Len(real) |-> [i \in 1..L |->
                   [num |-> ConvT1d(real[r], imag[r], kernel, i - 1, T, frame_hop),
                    den |-> transform.den * 2 * window.den,
                    e   |-> transform.e + kernel.e]]]
        norm == [i \in 1..L |->
                   [num |-> NormAt(window, i - 1, T, frame_hop),
                    den |-> window.den * window.den]]
    IN
    IF input \notin {"polar", "complex", "real"}
    THEN Raise("ValueError: Unknown output format", input)
    ELSE IF imag_dim \notin {2, 3}
    THEN Raise("Expect 2D/3D tensor", imag_dim)
    ELSE IF planes # kernel.shape[1]
    THEN Raise("conv_transpose1d: input channels", <<planes, kernel.shape[1]>>)
    ELSE [st    |-> "ok",
          shape |-> <<Len(real), L>>,
          s     |-> [r \in 1..Len(real) |-> [i \in 1..L |->
                        GuardedDiv(raw[r][i], norm[i])]],
          raw   |-> raw,
          norm  |-> norm,
          real  |-> real,
          imag  |-> imag]

forward_stft(w, frame_len, frame_hop, output, window, round_pow_of_two, normalized, onesided) ==
    LET c == init_window(window, frame_len) IN
    IF c.st = "raise" THEN c
    ELSE _forward_stft(w, init_kernel(frame_len, frame_hop, c, round_pow_of_two,
                                      normalized, FALSE),
                       output, frame_hop, onesided)

inverse_stft(transform, frame_len, frame_hop, input, window, round_pow_of_two, normalized, onesided) ==
    LET c == init_window(window, frame_len) IN
    IF c.st = "raise" THEN c
    ELSE _inverse_stft(transform, init_kernel(frame_len, frame_hop, c,
                                              round_pow_of_two, normalized, TRUE),
                       c, input, frame_hop, onesided)

-----------------------------------------------------------------------------
(* The functional API driven as a round trip: forward_stft on a waveform,  *)
(* then inverse_stft on what it returned, with the same settings.          *)

STFTSettings ==
    {a \in [frame_len : FrameLens, frame_hop : FrameHops, window : WindowNames,
            round_pow_of_two : BOOLEAN, normalized : BOOLEAN, onesided : BOOLEAN] :
        ExactWindow(a.window, a.frame_len)}

RECURSIVE Rows(_)
Rows(S) == IF S = 0 THEN {<<>>}
           ELSE {Append(x, v) : x \in Rows(S - 1), v \in SampleVals}

\* the other batch shapes: no batch axis, two utterances, a channel axis,
\* two leading axes too many
OtherShapes == {<<>>, <<2>>, <<1, 2>>, <<2, 1>>, <<1, 1, 1>>}

\* N x S batches of one utterance with every sample pattern, and batches of
\* the other shapes whose row r is filled with r
Waves ==
    {[shape |-> <<1, Len(x)>>, rows |-> <<x>>] : x \in UNION {Rows(S) : S \in 0..MaxS}}
    \cup {[shape |-> p \o <<S>>,
           rows  |-> [r \in 1..ProdSeq(p) |-> [i \in 1..S |-> r]]] :
             p \in OtherShapes, S \in 0..MaxS}

StftInit ==
    /\ args = None /\ wav = None /\ fwd = None /\ inv = None

\* forward_stft(wav, frame_len, frame_hop, output="complex", ...)
CallForwardStft ==
    /\ fwd = None
    /\ \E a \in STFTSettings, w \in Waves :
          /\ args' = a
          /\ wav' = w
          /\ fwd' = forward_stft(w, a.frame_len, a.frame_hop, "complex", a.window,
                                 a.round_pow_of_two, a.normalized, a.onesided)
    /\ UNCHANGED <<inv, eng, nf, pipe, out, stg, hist>>

\* inverse_stft(transform, frame_len, frame_hop, input="complex", ...) on the
\* transform forward_stft returned, with the settings of that call
CallInverseStft ==
    /\ fwd.st = "ok" /\ inv = None
    /\ inv' = inverse_stft(fwd, args.frame_len, args.frame_hop, "complex", args.window,
                           args.round_pow_of_two, args.normalized, args.onesided)
    /\ UNCHANGED <<args, wav, fwd, eng, nf, pipe, out, stg, hist>>

-----------------------------------------------------------------------------
(* STFTBase: the STFT / iSTFT layers.  K is held as its shape and scale, w *)
(* as its family and length: the parameters are never written after        *)
(* construction and their values are init_kernel's and init_window's.      *)

STFTBase(frame_len, frame_hop, window, round_pow_of_two, normalized, onesided, inverse) ==
    LET K == init_kernel(frame_len, frame_hop, [wnd |-> window, len |-> frame_len],
                         round_pow_of_two, normalized, inverse)
    IN
    IF window \notin {"bartlett", "hann", "hamm", "blackman", "rect", "sqrthann"}
    THEN Raise("Unknown window type", window)
    ELSE [st        |-> "ok",
          K         |-> K,
          w         |-> K.w,
          frame_len |-> frame_len,
          frame_hop |-> frame_hop,
          onesided  |-> onesided,
          inverse   |-> inverse,
          num_bins  |-> K.shape[1] \div 4 + 1]

\* num_frames without the + 1
num_frames_less_one(self, num_samples) ==
    IF Cardinality({i \in 1..Len(num_samples) : num_samples[i] <= self.frame_len}) # 0
    THEN Raise("Audio samples less than frame_len",
               [num_samples |-> num_samples, frame_len |-> self.frame_len])
    ELSE [st  |-> "ok",
          val |-> [i \in 1..Len(num_samples) |->
                      (num_samples[i] - self.frame_len) \div self.frame_hop]]

\* num_frames rejecting only the counts below frame_len
num_frames_strict(self, num_samples) ==
    IF Cardinality({i \in 1..Len(num_samples) : num_samples[i] < self.frame_len}) # 0
    THEN Raise("Audio samples less than frame_len",
               [num_samples |-> num_samples, frame_len |-> self.frame_len])
    ELSE [st  |-> "ok",
          val |-> [i \in 1..Len(num_samples) |->
                      (num_samples[i] - self.frame_len) \div self.frame_hop + 1]]

\* STFTBase.num_frames on a vector of sample counts
num_frames(self, num_samples) ==
    IF Cardinality({i \in 1..Len(num_samples) : num_samples[i] <= self.frame_len}) # 0
    THEN Raise("Audio samples less than frame_len",
               [num_samples |-> num_samples, frame_len |-> self.frame_len])
    ELSE [st  |-> "ok",
          val |-> [i \in 1..Len(num_samples) |->
                      (num_samples[i] - self.frame_len) \div self.frame_hop + 1]]

\* the settings the layers are built with: the exact ones and the usual
\* 25 ms / 10 ms framing at 16 kHz
EngineSettings ==
    [frame_len : FrameLens \cup {400}, frame_hop : FrameHops \cup {160},
     window : WindowNames, round_pow_of_two : BOOLEAN, normalized : BOOLEAN,
     onesided : BOOLEAN, inverse : BOOLEAN]

\* sample counts of the utterances of a batch
SampleCounts == (0..MaxS) \cup {16000}

BatchSizes == {1, 2}

SampleVectors == UNION {[1..n -> SampleCounts] : n \in BatchSizes}

\* STFT(...) or iSTFT(...)
NewLayer ==
    /\ eng = None
    /\ \E a \in EngineSettings :
          eng' = [a |-> a,
                  self |-> STFTBase(a.frame_len, a.frame_hop, a.window,
                                    a.round_pow_of_two, a.normalized, a.onesided,
                                    a.inverse)]
    /\ UNCHANGED <<args, wav, fwd, inv, nf, pipe, out, stg, hist>>

\* layer.num_frames(num_samples)
CallNumFrames ==
    /\ eng # None /\ eng.self.st = "ok"
    /\ \E v \in SampleVectors :
          nf' = [call |-> v, res |-> num_frames(eng.self, v)]
    /\ UNCHANGED <<args, wav, fwd, inv, eng, pipe, out, stg, hist>>

\* the sample count of the longest utterance of a batch
Longest(num_samples) ==
    CHOOSE m \in {num_samples[i] : i \in 1..Len(num_samples)} :
       \A i \in 1..Len(num_samples) : num_samples[i] <= m

\* STFT.forward(wav) on the batch the frame counts were asked for, padded to
\* its longest utterance: wav is N x S, the output N x F x T
StftForward(self, shape, output) ==
    ForwardShape(shape, self.K, output, self.frame_hop, self.onesided)

\* layer(wav) of an STFT layer, after layer.num_frames(num_samples); the
\* batches with a one-second utterance are transformed at the 10 ms hop only
CallStftForward ==
    /\ eng # None /\ eng.self.st = "ok" /\ ~eng.a.inverse
    /\ nf # None /\ "wav" \notin DOMAIN nf
    /\ Longest(nf.call) <= MaxS \/ eng.a.frame_hop = 160
    /\ nf' = [call |-> nf.call, res |-> nf.res,
              wav |-> <<Len(nf.call), Longest(nf.call)>>,
              fwd |-> StftForward(eng.self, <<Len(nf.call), Longest(nf.call)>>, "polar")]
    /\ UNCHANGED <<args, wav, fwd, inv, eng, pipe, out, stg, hist>>

-----------------------------------------------------------------------------
(* The stages of src/asr/feats/asr.py.  A stage is a record of its         *)
(* configuration; its forward is modelled on the shape of the tensor.      *)

Max(a, b) == IF a >= b THEN a ELSE b

Min(a, b) == IF a <= b THEN a ELSE b

\* SpectrogramTransform: STFT with normalized = False, onesided = True
SpectrogramTransform(frame_len, frame_hop, window, round_pow_of_two) ==
    LET b == STFTBase(frame_len, frame_hop, window, round_pow_of_two, FALSE, TRUE, FALSE)
    IN IF b.st = "raise" THEN b
       ELSE [st |-> "ok", kind |-> "SpectrogramTransform", stft |-> b]

\* MelTransform: filters are num_mels x (N // 2 + 1), N the FFT size
MelTransform(frame_len, round_pow_of_two, num_mels) ==
    [st |-> "ok", kind |-> "MelTransform", num_mels |-> num_mels,
     num_bins |-> FFTSize(frame_len, round_pow_of_two) \div 2 + 1]

LogTransform == [st |-> "ok", kind |-> "LogTransform"]

AbsTransform == [st |-> "ok", kind |-> "AbsTransform"]

\* DiscreteCosineTransform: dct is dct(eye(num_mels))[:num_ceps]
DiscreteCosineTransform(num_ceps, num_mels, lifter) ==
    [st |-> "ok", kind |-> "DiscreteCosineTransform", num_ceps |-> num_ceps,
     lifter |-> lifter, dct |-> <<Min(num_ceps, num_mels), num_mels>>]

CmvnTransform(norm_mean, norm_var) ==
    [st |-> "ok", kind |-> "CmvnTransform", norm_mean |-> norm_mean,
     norm_var |-> norm_var]

SpecAugTransform(p) == [st |-> "ok", kind |-> "SpecAugTransform", p |-> p]

SpliceTransform(lctx, rctx, ds_rate) ==
    [st |-> "ok", kind |-> "SpliceTransform", rate |-> ds_rate,
     lctx |-> Max(lctx, 0), rctx |-> Max(rctx, 0)]

DeltaTransform(ctx, order) ==
    [st |-> "ok", kind |-> "DeltaTransform", ctx |-> ctx, order |-> order]

\* dim() of the stages that have one
Dim(stage) ==
    CASE stage.kind = "SpectrogramTransform"    -> stage.stft.num_bins
      [] stage.kind = "MelTransform"            -> stage.num_mels
      [] stage.kind = "DiscreteCosineTransform" -> stage.num_ceps

\* LogTransform.dim_scale: return 1
LogDimScale(stage) == 1

\* CmvnTransform.dim_scale: return 1
CmvnDimScale(stage) == 1

\* SpliceTransform.dim_scale: return (1 + self.rctx + self.lctx)
SpliceDimScale(stage) == 1 + stage.rctx + stage.lctx

\* DeltaTransform.dim_scale: return self.order
DeltaDimScale(stage) == stage.order

\* dim_scale() of the stages that have one
dim_scale(stage) ==
    CASE stage.kind = "LogTransform"    -> LogDimScale(stage)
      [] stage.kind = "CmvnTransform"   -> CmvnDimScale(stage)
      [] stage.kind = "SpliceTransform" -> SpliceDimScale(stage)
      [] stage.kind = "DeltaTransform"  -> DeltaDimScale(stage)

\* the shape with its last axis replaced
WithLast(shape, d) == SubSeq(shape, 1, Len(shape) - 1) \o <<d>>

\* the shape with its time axis (the last but one) replaced
WithTime(shape, t) ==
    SubSeq(shape, 1, Len(shape) - 2) \o <<t, LastDim(shape)>>

\* SpectrogramTransform.forward: the magnitude, with time and bins swapped
SpectrogramForward(stage, shape) ==
    LET c == ForwardShape(shape, stage.stft.K, "polar", stage.stft.frame_hop,
                          stage.stft.onesided)
        n == Len(c.shape)
    IN IF c.st = "raise" THEN c
       ELSE [st |-> "ok",
             shape |-> SubSeq(c.shape, 1, n - 2) \o <<c.shape[n], c.shape[n - 1]>>]

\* MelTransform.forward: F.linear(x, filters)
MelForward(stage, shape) ==
    IF Len(shape) \notin {3, 4}
    THEN Raise("MelTransform expect 3/4D tensor", Len(shape))
    ELSE IF LastDim(shape) # stage.num_bins
    THEN Raise("linear: size mismatch", <<LastDim(shape), stage.num_bins>>)
    ELSE [st |-> "ok", shape |-> WithLast(shape, stage.num_mels)]

\* DiscreteCosineTransform.forward: F.linear(x, dct) * cepstral_lifter
DctForward(stage, shape) ==
    IF LastDim(shape) # stage.dct[2]
    THEN Raise("linear: size mismatch", <<LastDim(shape), stage.dct[2]>>)
    ELSE IF stage.dct[1] # stage.num_ceps /\ stage.dct[1] # 1
    THEN Raise("broadcast: size mismatch", <<stage.dct[1], stage.num_ceps>>)
    ELSE [st |-> "ok", shape |-> WithLast(shape, stage.num_ceps)]

\* the masking decision taken whatever the mode
AugTakenAnyMode(training, coin) == coin

\* if self.training and th.rand(1).item() < self.p; coin is the comparison
AugTaken(training, coin) == training /\ coin

\* SpecAugTransform.forward: masks only when training and th.rand(1) < p
AugForward(stage, shape, training, coin) ==
    IF AugTaken(training, coin) /\ Len(shape) = 4
    THEN Raise("Not supported for multi-channel", Len(shape))
    ELSE [st |-> "ok", shape |-> shape]

\* number of elements of x[::rate] over T elements
Strided(T, rate) == (T + rate - 1) \div rate

\* SpliceTransform.forward
SpliceForward(stage, shape) ==
    LET T0 == shape[Len(shape) - 1]
        T == T0 - (T0 % stage.rate)
        spliced == IF stage.lctx + stage.rctx # 0
                   THEN WithTime(WithLast(shape, LastDim(shape)
                                          * (stage.lctx + stage.rctx + 1)), T)
                   ELSE shape
    IN [st |-> "ok",
        shape |-> IF stage.rate # 1
                  THEN WithTime(spliced, Strided(spliced[Len(spliced) - 1], stage.rate))
                  ELSE spliced]

\* DeltaTransform.forward: x and range(order) derivative bands, concatenated
DeltaForward(stage, shape) ==
    [st |-> "ok",
     shape |-> WithLast(shape, LastDim(shape) * (1 + Max(stage.order, 0)))]

StageForward(stage, shape, training, coin) ==
    CASE stage.kind = "SpectrogramTransform"    -> SpectrogramForward(stage, shape)
      [] stage.kind = "MelTransform"            -> MelForward(stage, shape)
      [] stage.kind = "DiscreteCosineTransform" -> DctForward(stage, shape)
      [] stage.kind = "SpecAugTransform"        -> AugForward(stage, shape, training, coin)
      [] stage.kind = "SpliceTransform"         -> SpliceForward(stage, shape)
      [] stage.kind = "DeltaTransform"          -> DeltaForward(stage, shape)
      [] OTHER                                  -> [st |-> "ok", shape |-> shape]

\* nn.Sequential: the stages in order, stopping at the first that raises
RECURSIVE Sequential(_, _, _, _)
Sequential(transform, shape, training, coin) ==
    IF transform = <<>> THEN [st |-> "ok", shape |-> shape]
    ELSE LET r == StageForward(Head(transform), shape, training, coin) IN
         IF r.st = "raise" THEN r
         ELSE Sequential(Tail(transform), r.shape, training, coin)

-----------------------------------------------------------------------------
(* FeatureTransform.                                                       *)

\* SplitFrom, dropping the empty tokens
RECURSIVE SplitNonEmpty(_, _, _)
SplitNonEmpty(str, cur, acc) ==
    LET put == IF cur = "" THEN acc ELSE Append(acc, cur) IN
    IF str = <<>> THEN put
    ELSE IF Head(str) = "-" THEN SplitNonEmpty(Tail(str), "", put)
    ELSE SplitNonEmpty(Tail(str), Head(str), acc)

SplitNonEmptyTokens(str) == SplitNonEmpty(str, "", <<>>)

\* feats.split("-") on a string given as its pieces: "-" or a dash-free word
RECURSIVE SplitFrom(_, _, _)
SplitFrom(str, cur, acc) ==
    IF str = <<>> THEN Append(acc, cur)
    ELSE IF Head(str) = "-" THEN SplitFrom(Tail(str), "", Append(acc, cur))
    ELSE SplitFrom(Tail(str), Head(str), acc)

Split(str) == SplitFrom(str, "", <<>>)

\* SpliceDim counting the context frames without the centre frame
SpliceDimNoCentre(feats_dim, lctx, rctx) == feats_dim * (lctx + rctx)

\* feats_dim *= (1 + lctx + rctx)
SpliceDim(feats_dim, lctx, rctx) == feats_dim * (1 + lctx + rctx)

\* feats_dim *= (1 + delta_order)
DeltaDim(feats_dim, delta_order) == feats_dim * (1 + delta_order)

\* one pass of the constructor's loop: the stages appended for tok and the
\* new feats_dim and downsample_rate
BuildToken(tok, feats, p, acc) ==
    LET spec == SpectrogramTransform(p.frame_len, p.frame_hop, p.window,
                                     p.round_pow_of_two)
        mel == MelTransform(p.frame_len, p.round_pow_of_two, p.num_mels)
        dct == DiscreteCosineTransform(p.num_ceps, p.num_mels, p.lifter)
    IN
    CASE tok = "spectrogram" ->
           IF spec.st = "raise" THEN spec
           ELSE [acc EXCEPT !.transform = @ \o <<spec>>, !.feats_dim = Dim(spec)]
      [] tok = "fbank" ->
           IF spec.st = "raise" THEN spec
           ELSE [acc EXCEPT !.transform = @ \o <<spec, mel>>, !.feats_dim = Dim(mel)]
      [] tok = "mfcc" ->
           IF spec.st = "raise" THEN spec
           ELSE [acc EXCEPT !.transform = @ \o <<spec, mel, LogTransform, dct>>]
      [] tok = "mel" ->
           [acc EXCEPT !.transform = @ \o <<mel>>, !.feats_dim = Dim(mel)]
      [] tok = "log" ->
           [acc EXCEPT !.transform = @ \o <<LogTransform>>]
      [] tok = "abs" ->
           [acc EXCEPT !.transform = @ \o <<AbsTransform>>]
      [] tok = "dct" ->
           [acc EXCEPT !.transform = @ \o <<dct>>, !.feats_dim = Dim(dct)]
      [] tok = "cmvn" ->
           [acc EXCEPT !.transform = @ \o <<CmvnTransform(p.norm_mean, p.norm_var)>>]
      [] tok = "aug" ->
           [acc EXCEPT !.transform = @ \o <<SpecAugTransform(p.aug_prob)>>]
      [] tok = "splice" ->
           [acc EXCEPT !.transform = @ \o <<SpliceTransform(p.lctx, p.rctx, p.ds_rate)>>,
                       !.feats_dim = SpliceDim(@, p.lctx, p.rctx),
                       !.downsample_rate = p.ds_rate]
      [] tok = "delta" ->
           [acc EXCEPT !.transform = @ \o <<DeltaTransform(p.delta_ctx, p.delta_order)>>,
                       !.feats_dim = DeltaDim(@, p.delta_order)]
      [] OTHER ->
           Raise("Unknown token", [tok |-> tok, feats |-> feats])

RECURSIVE BuildFrom(_, _, _, _)
BuildFrom(toks, feats, p, acc) ==
    IF toks = <<>> THEN acc
    ELSE LET r == BuildToken(Head(toks), feats, p, acc) IN
         IF r.st = "raise" THEN r ELSE BuildFrom(Tail(toks), feats, p, r)

\* FeatureTransform.__init__
FeatureTransform(feats, p) ==
    BuildFrom(Split(feats), feats, p,
              [st |-> "ok", transform |-> <<>>, feats_dim |-> 0, downsample_rate |-> 1])

\* FeatureTransform.num_frames
PipeNumFrames(self, x_len) ==
    IF self.transform[1].kind # "SpectrogramTransform"
    THEN Raise("AttributeError: len", self.transform[1].kind)
    ELSE num_frames(self.transform[1].stft, x_len)

\* Downsample rounding up
DownsampleCeil(feats_len, downsample_rate) ==
    [i \in 1..Len(feats_len) |->
        (feats_len[i] + downsample_rate - 1) \div downsample_rate]

\* feats_len // self.downsample_rate
Downsample(feats_len, downsample_rate) ==
    [i \in 1..Len(feats_len) |-> feats_len[i] \div downsample_rate]

\* FeatureTransform.forward; x_len is None or Some(vector)
PipeForward(self, x_pad, x_len, training, coin) ==
    LET feats_pad == Sequential(self.transform, x_pad, training, coin)
        n == IF x_len = None THEN None ELSE PipeNumFrames(self, x_len.val)
    IN
    IF feats_pad.st = "raise" THEN feats_pad
    ELSE IF x_len = None
    THEN [st |-> "ok", feats_pad |-> feats_pad.shape, feats_len |-> None]
    ELSE IF n.st = "raise" THEN n
    ELSE [st |-> "ok", feats_pad |-> feats_pad.shape,
          feats_len |-> Some(Downsample(n.val, self.downsample_rate))]

\* the stage names of the constructor, and a word that is none of them
Tokens == {"spectrogram", "fbank", "mfcc", "mel", "log", "abs", "dct", "cmvn",
           "aug", "splice", "delta"}

Words == Tokens \cup {"unknown"}

\* the strings of at most n pieces: no word follows a word without a dash
RECURSIVE Strings(_)
Strings(n) ==
    IF n = 0 THEN {<<>>}
    ELSE Strings(n - 1) \cup
         {Append(q[1], q[2]) :
            q \in {r \in Strings(n - 1) \X (Words \cup {"-"}) :
                     /\ Len(r[1]) = n - 1
                     /\ r[2] = "-" \/ r[1] = <<>> \/ r[1][Len(r[1])] = "-"}}

\* longest feats string, in pieces
MaxFeatsLen == 5

\* framing and projection sizes: the defaults of the constructor with 80
\* mel bands, and a small front end
Fronts ==
    {[frame_len |-> 400, frame_hop |-> 160, window |-> "hamm",
      round_pow_of_two |-> TRUE, num_mels |-> 80, num_ceps |-> 13, lifter |-> 0],
     [frame_len |-> 3, frame_hop |-> 2, window |-> "hann",
      round_pow_of_two |-> FALSE, num_mels |-> 2, num_ceps |-> 2, lifter |-> 22]}

\* context, decimation, delta and augmentation settings; aug_prob in percent
Backs ==
    {[lctx |-> 1, rctx |-> 1, ds_rate |-> 1, delta_ctx |-> 2, delta_order |-> 2,
      aug_prob |-> 0, norm_mean |-> TRUE, norm_var |-> TRUE],
     [lctx |-> 1, rctx |-> 1, ds_rate |-> 2, delta_ctx |-> 2, delta_order |-> 2,
      aug_prob |-> 50, norm_mean |-> TRUE, norm_var |-> TRUE],
     [lctx |-> 0, rctx |-> 0, ds_rate |-> 3, delta_ctx |-> 1, delta_order |-> 0,
      aug_prob |-> 100, norm_mean |-> TRUE, norm_var |-> FALSE],
     [lctx |-> -1, rctx |-> 2, ds_rate |-> 2, delta_ctx |-> 2, delta_order |-> 1,
      aug_prob |-> 50, norm_mean |-> FALSE, norm_var |-> FALSE]}

ParamSets == {f @@ b : f \in Fronts, b \in Backs}

\* the outcomes th.rand(1).item() < p can have
Coins(p) == {c \in BOOLEAN : (c => p > 0) /\ (~c => p < 100)}

\* waveform batches of W + 5H samples (6 frames) and shorter ones, with the
\* sample lengths handed to forward: None or one count per utterance
PipeInputs(W, H) ==
    {[x_pad |-> <<2, W + 5 * H>>, x_len |-> None],
     [x_pad |-> <<2, W + 5 * H>>, x_len |-> Some(<<W + 1, W + 5 * H>>)],
     [x_pad |-> <<2, W + 5 * H>>, x_len |-> Some(<<W + 3 * H + 1, W + 2 * H>>)],
     [x_pad |-> <<2, W + 5 * H>>, x_len |-> Some(<<W + 5 * H, W>>)],
     [x_pad |-> <<1, W>>, x_len |-> None],
     [x_pad |-> <<1, W>>, x_len |-> Some(<<W>>)],
     [x_pad |-> <<1, 2, W + 5 * H>>, x_len |-> Some(<<W + 4 * H>>)],
     [x_pad |-> <<1, W - 1>>, x_len |-> None]}

HasAug(self) == \E i \in 1..Len(self.transform) :
                   self.transform[i].kind = "SpecAugTransform"

\* FeatureTransform(feats, ...)
NewPipeline ==
    /\ pipe = None
    /\ \E feats \in Strings(MaxFeatsLen), p \in ParamSets :
          pipe' = [feats |-> feats, p |-> p, self |-> FeatureTransform(feats, p)]
    /\ UNCHANGED <<args, wav, fwd, inv, eng, nf, out, stg, hist>>

\* pipeline(x_pad, x_len), in training or evaluation mode; the mode and the
\* coin are read by SpecAugTransform alone
CallPipeline ==
    /\ pipe # None /\ pipe.self.st = "ok"
    /\ \E in \in PipeInputs(pipe.p.frame_len, pipe.p.frame_hop), training \in BOOLEAN,
          coin \in Coins(pipe.p.aug_prob) :
          /\ ~HasAug(pipe.self) => (~training /\ coin = (pipe.p.aug_prob = 100))
          /\ ~training => coin = (pipe.p.aug_prob = 100)
          /\ out' = [x_pad |-> in.x_pad, x_len |-> in.x_len, training |-> training,
                     coin |-> coin,
                     res |-> PipeForward(pipe.self, in.x_pad, in.x_len, training, coin)]
    /\ UNCHANGED <<args, wav, fwd, inv, eng, nf, pipe, stg, hist>>

-----------------------------------------------------------------------------
(* Single stages and helpers called on small tensors, with values.  A      *)
(* tensor whose numbers do not matter is a shape with a value               *)
(* [data, ops]: the name of its data and the value-changing operations     *)
(* applied to it since; two tensors with the same value hold the same      *)
(* numbers.                                                                *)

\* the draws of the mask positions inside specaug
MaskDraws == {"specaug#1", "specaug#2"}

\* specaug(x[n], ...) stacked over the batch: a masked copy of the value
specaug(val, draw) == [val EXCEPT !.ops = Append(@, draw)]

\* SpecAugTransform.forward on x = [shape, val]: the results it can have.
\* same tells that the returned tensor is the argument itself.  specaug is
\* documented for T x F slices: on other ranks it may fail.
AugApply(stage, x, training, coin, draw) ==
    IF AugTaken(training, coin)
    THEN IF Len(x.shape) = 4
         THEN {Raise("Not supported for multi-channel", Len(x.shape))}
         ELSE {[st |-> "ok", shape |-> x.shape, val |-> specaug(x.val, draw),
                same |-> FALSE]}
              \cup (IF Len(x.shape) = 3 THEN {}
                    ELSE {Raise("specaug", Len(x.shape))})
    ELSE {[st |-> "ok", shape |-> x.shape, val |-> x.val, same |-> TRUE]}

\* the utterances of the batch x that one call of SpecAugTransform.forward
\* hands to specaug: th.rand(1) is drawn once, before the loop over x[n]
AugMasked(x, training, coin) == [n \in 1..x.shape[1] |-> AugTaken(training, coin)]

\* the outcomes one call can have, over the draws of th.rand(1)
AugPatterns(stage, x, training) == {AugMasked(x, training, coin) : coin \in Coins(stage.p)}

\* masking probabilities in percent
AugProbs == {0, 50, 100}

\* inputs of rank 2 to 5
AugInputs ==
    {[shape |-> sh, val |-> [data |-> d, ops |-> <<>>]] :
        sh \in {<<2, 3>>, <<1, 2, 3>>, <<2, 2, 3>>, <<1, 1, 2, 3>>, <<2, 2, 2, 3>>,
                <<1, 1, 1, 2, 3>>},
        d \in {"u", "v"}}

\* SpecAugTransform(p)(x) in training or evaluation mode
CallSpecAug ==
    /\ stg = None
    /\ \E p \in AugProbs, x \in AugInputs, training \in BOOLEAN, draw \in MaskDraws :
       \E coin \in Coins(p) :
       \E res \in AugApply(SpecAugTransform(p), x, training, coin, draw) :
          stg' = [op |-> "SpecAugTransform.forward", p |-> p, x |-> x,
                  training |-> training, coin |-> coin, res |-> res]
    /\ UNCHANGED <<args, wav, fwd, inv, eng, nf, pipe, out, hist>>

\* 2 * sum(i**2 for i in range(1, self.ctx + 1))
DeltaDen(ctx) == 2 * SumSeq([i \in 1..ctx |-> i * i])

\* _add_delta with the two shifted slices only, the edges left at zero
AddDeltaZeroEdges(x, ctx) ==
    LET T == Len(x) IN
    [t \in 1..T |->
        SumSeq([i \in 1..ctx |->
              (IF t + i <= T THEN i * x[t + i] ELSE 0)
            + (IF t - i >= 1 THEN -i * x[t - i] ELSE 0)])]

\* _add_delta on one column x of T numbers, before the division: the four
\* slice updates of every i, the last two replicating the edge frames
AddDelta(x, ctx) ==
    LET T == Len(x) IN
    [t \in 1..T |->
        SumSeq([i \in 1..ctx |->
              (IF t + i <= T THEN i * x[t + i] ELSE 0)
            + (IF t - i >= 1 THEN -i * x[t - i] ELSE 0)
            + (IF t > T - i THEN i * x[T] ELSE 0)
            + (IF t <= i THEN -i * x[1] ELSE 0)])]

\* delta[k]: the k-th derivative band of column x, over DeltaDen(ctx)^k
RECURSIVE DeltaBand(_, _, _)
DeltaBand(x, ctx, k) ==
    IF k = 0 THEN x ELSE AddDelta(DeltaBand(x, ctx, k - 1), ctx)

\* column f of a T x F matrix
Col(x, f) == [t \in 1..Len(x) |-> x[t][f]]

\* DeltaTransform.forward without the input band
DeltaApplyNoInput(stage, x) ==
    LET F == Len(x[1])
        bands == Max(stage.order, 0)
    IN [st |-> "ok",
        rows |-> [t \in 1..Len(x) |-> [c \in 1..(bands * F) |->
                    LET k == (c - 1) \div F + 1
                        f == ((c - 1) % F) + 1
                    IN [num |-> DeltaBand(Col(x, f), stage.ctx, k)[t],
                        den |-> IPow(DeltaDen(stage.ctx), k)]]]]

\* DeltaTransform.forward on a T x F matrix of integers: th.cat of x and
\* range(order) derivative bands along the last axis
DeltaApply(stage, x) ==
    LET F == Len(x[1])
        bands == 1 + Max(stage.order, 0)
    IN [st |-> "ok",
        rows |-> [t \in 1..Len(x) |-> [c \in 1..(bands * F) |->
                    LET k == (c - 1) \div F
                        f == ((c - 1) % F) + 1
                    IN [num |-> DeltaBand(Col(x, f), stage.ctx, k)[t],
                        den |-> IPow(DeltaDen(stage.ctx), k)]]]]

\* most frames of a stage input
MaxFrames == 5

\* x[t] = a*t + b, t = 0..T-1
Ramp(a, b, T) == [t \in 1..T |-> a * (t - 1) + b]

\* columns: ramps, and steps from 0 to 1
DeltaColumns(T) ==
    {Ramp(a, b, T) : a \in {-1, 0, 1, 2}, b \in {0, 3}}
    \cup {[t \in 1..T |-> IF t <= n THEN 0 ELSE 1] : n \in 1..T}

\* T x 1 matrices of every column, T x 2 matrices of a ramp beside a step
DeltaInputs ==
    UNION {{[t \in 1..T |-> <<c[t]>>] : c \in DeltaColumns(T)}
           \cup {[t \in 1..T |-> <<Ramp(a, 1, T)[t], IF t <= 1 THEN 0 ELSE 1>>] :
                    a \in {1, 2}} :
           T \in 1..MaxFrames}

\* DeltaTransform(ctx, order)(x)
CallDelta ==
    /\ stg = None
    /\ \E ctx \in {1, 2}, order \in {0, 1, 2}, x \in DeltaInputs :
          stg' = [op |-> "DeltaTransform.forward", ctx |-> ctx, order |-> order,
                  x |-> x, res |-> DeltaApply(DeltaTransform(ctx, order), x)]
    /\ UNCHANGED <<args, wav, fwd, inv, eng, nf, pipe, out, hist>>

\* a number 1 + num/den * sqrt(rad), or nan
NaN == [nan |-> TRUE, num |-> 0, den |-> 0, rad |-> 1]

\* cepstral_lifter = 1 + lifter * 0.5 * th.sin(math.pi * th.arange(1, 1 +
\* num_ceps) / lifter) for lifter in 0..3: sin(pi*k/lifter) is
\* S2(2*lifter, k) * sqrt(Radicand(2*lifter)) / 2; a division by lifter = 0
\* gives inf, th.sin(inf) is nan and 0 * nan is nan
CepstralLifter(num_ceps, lifter) ==
    [k \in 1..num_ceps |->
        IF lifter = 0 THEN NaN
        ELSE [nan |-> FALSE, num |-> lifter * S2(2 * lifter, k), den |-> 4,
              rad |-> Radicand(2 * lifter)]]

\* DiscreteCosineTransform.forward on one frame: entry k is the k-th DCT
\* projection of the frame times cepstral_lifter[k]
DctApply(stage, cepstral_lifter, shape) ==
    LET f == DctForward(stage, shape) IN
    IF f.st = "raise" THEN f
    ELSE [st |-> "ok", shape |-> f.shape,
          f |-> [k \in 1..stage.num_ceps |->
                    [proj |-> k, times |-> cepstral_lifter[k]]]]

\* lifter values of the stage calls
Lifters == {0, 1, 2, 3}

\* DiscreteCosineTransform(num_ceps, num_mels, lifter)(x), x of N x T x num_mels
CallDct ==
    /\ stg = None
    /\ \E num_ceps \in {1, 2, 3}, num_mels \in {3, 4}, lifter \in Lifters,
          sh \in {<<1, 2>>, <<2, 1, 2>>} :
          LET self == DiscreteCosineTransform(num_ceps, num_mels, lifter)
              cl == CepstralLifter(num_ceps, lifter)
          IN stg' = [op |-> "DiscreteCosineTransform.forward", self |-> self,
                     cepstral_lifter |-> cl,
                     res |-> DctApply(self, cl, sh \o <<num_mels>>)]
    /\ UNCHANGED <<args, wav, fwd, inv, eng, nf, pipe, out, hist>>

\* window names handed to init_window: the six families and others
WindowArgs == WindowNames \cup {"hanning", "Hann", "unknown", ""}

\* window lengths with exact coefficients
WindowLens == {0, 1, 2, 3, 4, 6}

\* init_window(wnd, frame_len); the call before it is kept beside it
CallInitWindow ==
    /\ \/ stg = None
       \/ stg # None /\ stg.op = "init_window" /\ stg.prev = None
    /\ \E wnd \in WindowArgs, frame_len \in WindowLens :
          stg' = [op |-> "init_window", wnd |-> wnd, frame_len |-> frame_len,
                  res |-> init_window(wnd, frame_len),
                  prev |-> IF stg = None THEN None
                           ELSE [st |-> "call", wnd |-> stg.wnd,
                                 frame_len |-> stg.frame_len, res |-> stg.res]]
    /\ UNCHANGED <<args, wav, fwd, inv, eng, nf, pipe, out, hist>>

-----------------------------------------------------------------------------
(* One pipeline called again and again.  hist keeps two of the calls made: *)
(* the latest, and before it any one of the earlier calls, whatever was    *)
(* called between the two.                                                 *)

\* the value a stage returns for an input value: the stages that return
\* their argument keep it, the others apply their operation to it
StageValue(stage, val, training, coin, draw) ==
    CASE stage.kind = "SpecAugTransform" ->
           IF AugTaken(training, coin) THEN specaug(val, draw) ELSE val
      [] stage.kind = "CmvnTransform" ->
           IF ~stage.norm_mean /\ ~stage.norm_var THEN val
           ELSE [val EXCEPT !.ops = Append(@, stage.kind)]
      [] stage.kind = "SpliceTransform" ->
           IF stage.lctx + stage.rctx = 0 /\ stage.rate = 1 THEN val
           ELSE [val EXCEPT !.ops = Append(@, stage.kind)]
      [] OTHER -> [val EXCEPT !.ops = Append(@, stage.kind)]

\* self.transform(x_pad): the value of the features
RECURSIVE SequentialValue(_, _, _, _, _)
SequentialValue(transform, val, training, coin, draw) ==
    IF transform = <<>> THEN val
    ELSE SequentialValue(Tail(transform),
                         StageValue(Head(transform), val, training, coin, draw),
                         training, coin, draw)

\* FeatureTransform.forward with the value of the features beside their shape
PipeForwardValue(self, x_pad, x_len, training, coin, draw) ==
    LET r == PipeForward(self, x_pad.shape, x_len, training, coin) IN
    IF r.st = "raise" THEN r
    ELSE [st |-> "ok", feats_pad |-> r.feats_pad, feats_len |-> r.feats_len,
          val |-> SequentialValue(self.transform, x_pad.val, training, coin, draw)]

\* forward resetting the recorded decimation factor
SelfAfterForwardResets(self, x_pad, x_len) == [self EXCEPT !.downsample_rate = 1]

\* the module after forward(x_pad, x_len): forward and the stages it runs
\* assign no attribute, and CmvnTransform writes in place into the tensor
\* it is handed, which is never a parameter
SelfAfterForward(self, x_pad, x_len) == self

\* the module after num_frames(x_len)
SelfAfterNumFrames(self, x_len) == self

\* longest feats string of the pipelines called repeatedly, in pieces
MaxCallFeatsLen == 3

\* their feats strings: every short one and three longer chains
CallFeats ==
    Strings(MaxCallFeatsLen)
    \cup {<<"fbank", "-", "log", "-", "cmvn">>,
          <<"fbank", "-", "aug", "-", "splice">>,
          <<"spectrogram", "-", "cmvn", "-", "aug">>}

\* their settings: the small front end, with contexts of 0 and 1 frames
CallParams == {p \in ParamSets : p.frame_len = 3 /\ p.lctx >= 0}

\* waveforms u and v of one shape, with and without sample lengths, and a
\* waveform too short for a frame
CallInputs(W, H) ==
    {[x_pad |-> [shape |-> <<1, W + 2 * H>>, val |-> [data |-> d, ops |-> <<>>]],
      x_len |-> l] : d \in {"u", "v"}, l \in {None, Some(<<W + H + 1>>)}}
    \cup {[x_pad |-> [shape |-> <<1, W - 1>>, val |-> [data |-> "u", ops |-> <<>>]],
           x_len |-> None]}

\* the two calls kept once a call c is made: c and, before it, one of the
\* calls kept so far; between tells that a call was made between the two
Kept(c, drop) ==
    IF hist = <<>> THEN <<c>>
    ELSE IF Len(hist) = 1 THEN <<[hist[1] EXCEPT !.between = FALSE], c>>
    ELSE IF drop THEN <<[hist[2] EXCEPT !.between = FALSE], c>>
    ELSE <<[hist[1] EXCEPT !.between = TRUE], c>>

\* FeatureTransform(feats, ...), to be called repeatedly
BuildPipeline ==
    /\ pipe = None
    /\ \E feats \in CallFeats, p \in CallParams :
          pipe' = [feats |-> feats, p |-> p, self |-> FeatureTransform(feats, p)]
    /\ UNCHANGED <<args, wav, fwd, inv, eng, nf, out, stg, hist>>

\* pipeline(x_pad, x_len) in training or evaluation mode; the coin and the
\* mask draw are those of the aug stage
Forward ==
    /\ pipe # None /\ pipe.self.st = "ok"
    /\ \E in \in CallInputs(pipe.p.frame_len, pipe.p.frame_hop), training \in BOOLEAN,
          draw \in MaskDraws, drop \in BOOLEAN :
       \E coin \in Coins(pipe.p.aug_prob) :
          /\ ~HasAug(pipe.self) => (coin = (pipe.p.aug_prob = 100) /\ draw = "specaug#1")
          /\ hist' = Kept([op |-> "forward", x_pad |-> in.x_pad, x_len |-> in.x_len,
                           training |-> training, between |-> FALSE,
                           res |-> PipeForwardValue(pipe.self, in.x_pad, in.x_len,
                                                    training, coin, draw)], drop)
          /\ pipe' = [pipe EXCEPT
                         !.self = SelfAfterForward(pipe.self, in.x_pad, in.x_len)]
    /\ UNCHANGED <<args, wav, fwd, inv, eng, nf, out, stg>>

\* pipeline.num_frames(x_len)
NumFrames ==
    /\ pipe # None /\ pipe.self.st = "ok"
    /\ \E x_len \in {<<pipe.p.frame_len + 1>>, <<pipe.p.frame_len>>}, drop \in BOOLEAN :
          /\ hist' = Kept([op |-> "num_frames", x_len |-> x_len, between |-> FALSE,
                           res |-> PipeNumFrames(pipe.self, x_len)], drop)
          /\ pipe' = [pipe EXCEPT !.self = SelfAfterNumFrames(pipe.self, x_len)]
    /\ UNCHANGED <<args, wav, fwd, inv, eng, nf, out, stg>>

\* th.cat(ctx, -1) on one frame: the rows of a sequence joined
RECURSIVE CatLast(_)
CatLast(rows) == IF rows = <<>> THEN <<>> ELSE Head(rows) \o CatLast(Tail(rows))

\* th.clamp(idx, min=lo, max=hi): min is applied first, then max
Clamp(i, lo, hi) == Min(Max(i, lo), hi)

\* SpliceTransform.forward on a T x F matrix: T is cut to a multiple of the
\* rate, frame t of the spliced matrix joins the frames clamp(t + c, 0, T - 1)
\* of x for c = -lctx .. rctx, and x[..., ::rate, :] keeps every rate-th frame
\* of the spliced matrix, or of x itself when there is no context
SpliceApply(stage, x) ==
    LET T == Len(x) - (Len(x) % stage.rate)
        spliced == IF stage.lctx + stage.rctx # 0
                   THEN [t \in 1..T |->
                           CatLast([k \in 1..(stage.lctx + stage.rctx + 1) |->
                              x[Clamp(t - 1 + (k - 1 - stage.lctx), 0, T - 1) + 1]])]
                   ELSE x
    IN [st |-> "ok",
        rows |-> IF stage.rate # 1
                 THEN [j \in 1..Strided(Len(spliced), stage.rate) |->
                         spliced[(j - 1) * stage.rate + 1]]
                 ELSE spliced]

\* T x F matrices whose frames all differ
SpliceInputs ==
    {[t \in 1..T |-> [f \in 1..F |-> 10 * f + t]] : T \in 1..MaxFrames, F \in {1, 2}}

\* SpliceTransform(lctx, rctx, ds_rate)(x)
CallSplice ==
    /\ stg = None
    /\ \E lctx \in {0, 1, 2}, rctx \in {0, 1, 2}, ds_rate \in {1, 2, 3},
          x \in SpliceInputs :
          stg' = [op |-> "SpliceTransform.forward", lctx |-> lctx, rctx |-> rctx,
                  ds_rate |-> ds_rate, x |-> x,
                  res |-> SpliceApply(SpliceTransform(lctx, rctx, ds_rate), x)]
    /\ UNCHANGED <<args, wav, fwd, inv, eng, nf, pipe, out, hist>>

\* a number (num / den) / d, with d one of 1, EPSILON and sqrt(snum / sden)
Elem(num, den, div) == [num |-> num, den |-> den, div |-> div]

\* th.clamp(th.std(x, -1), min=EPSILON) of one frame r of F >= 2 integers:
\* the unbiased deviation sqrt(sum((F*r - sum(r))^2) / (F^2 * (F - 1))), which
\* for integers is either 0, clamped to EPSILON, or far above EPSILON
ClampedStd(r) ==
    LET F == Len(r)
        ss == SumSeq([f \in 1..F |-> (F * r[f] - SumSeq(r)) * (F * r[f] - SumSeq(r))])
    IN IF ss = 0 THEN [k |-> "EPSILON", snum |-> 0, sden |-> 1]
       ELSE [k |-> "sqrt", snum |-> ss, sden |-> F * F * (F - 1)]

\* the frame r after x -= m and x /= clamp(s), m and s taken from r itself
CmvnRow(stage, r) ==
    LET F == Len(r)
        div == IF stage.norm_var THEN ClampedStd(r)
               ELSE [k |-> "one", snum |-> 1, sden |-> 1]
    IN [f \in 1..F |->
          IF stage.norm_mean THEN Elem(F * r[f] - SumSeq(r), F, div)
          ELSE Elem(r[f], 1, div)]

\* CmvnTransform.forward on the caller's T x F tensor x: rows is the tensor
\* returned, after is the caller's tensor once the call is over.  x -= m and
\* x /= ... write into x, and the tensor returned is x itself.
CmvnApply(stage, x) ==
    LET plain == [t \in 1..Len(x) |->
                    [f \in 1..Len(x[t]) |->
                        Elem(x[t][f], 1, [k |-> "one", snum |-> 1, sden |-> 1])]]
        done == [t \in 1..Len(x) |-> CmvnRow(stage, x[t])]
    IN IF ~stage.norm_mean /\ ~stage.norm_var
       THEN [st |-> "ok", rows |-> plain, after |-> plain, same |-> TRUE]
       ELSE [st |-> "ok", rows |-> done, after |-> done, same |-> TRUE]

\* tensors of one frame of 2 or 3 numbers and of two frames of 2 numbers
CmvnInputs ==
    {<<r>> : r \in [1..2 -> {-1, 0, 1, 2}] \cup [1..3 -> {-1, 0, 1, 2}]}
    \cup {<<r, q>> : r \in [1..2 -> {-1, 0, 1, 2}], q \in {<<0, 0>>, <<1, 2>>}}

\* CmvnTransform(norm_mean, norm_var)(x)
CallCmvn ==
    /\ stg = None
    /\ \E norm_mean \in BOOLEAN, norm_var \in BOOLEAN, x \in CmvnInputs :
          stg' = [op |-> "CmvnTransform.forward", norm_mean |-> norm_mean,
                  norm_var |-> norm_var, x |-> x,
                  res |-> CmvnApply(CmvnTransform(norm_mean, norm_var), x)]
    /\ UNCHANGED <<args, wav, fwd, inv, eng, nf, pipe, out, hist>>

\* frame lengths of the kernels built alone
KernelLens == {1, 2, 3, 4, 5, 400}

\* init_kernel(frame_len, frame_hop, window, ...) with a rect window; the
\* call before it is kept beside it
CallInitKernel ==
    /\ \/ stg = None
       \/ stg # None /\ stg.op = "init_kernel" /\ stg.prev = None
    /\ \E frame_len \in KernelLens, round_pow_of_two \in BOOLEAN,
          normalized \in BOOLEAN, inverse \in BOOLEAN :
          stg' = [op |-> "init_kernel", frame_len |-> frame_len,
                  round_pow_of_two |-> round_pow_of_two,
                  normalized |-> normalized, inverse |-> inverse,
                  K |-> init_kernel(frame_len, 1, init_window("rect", frame_len),
                                    round_pow_of_two, normalized, inverse),
                  prev |-> IF stg = None THEN None
                           ELSE [st |-> "call", frame_len |-> stg.frame_len,
                                 round_pow_of_two |-> stg.round_pow_of_two,
                                 normalized |-> stg.normalized,
                                 inverse |-> stg.inverse, K |-> stg.K]]
    /\ UNCHANGED <<args, wav, fwd, inv, eng, nf, pipe, out, hist>>

Init ==
    /\ StftInit
    /\ eng = None /\ nf = None
    /\ pipe = None /\ out = None
    /\ stg = None /\ hist = <<>>

NextStft == CallForwardStft \/ CallInverseStft

SpecStft == Init /\ [][NextStft]_vars

NextLayer == NewLayer \/ CallNumFrames \/ CallStftForward

SpecLayer == Init /\ [][NextLayer]_vars

NextPipe == NewPipeline \/ CallPipeline

SpecPipe == Init /\ [][NextPipe]_vars

NextStage ==
    \/ CallSpecAug \/ CallDelta \/ CallDct \/ CallInitWindow
    \/ CallInitKernel \/ CallSplice \/ CallCmvn

SpecStage == Init /\ [][NextStage]_vars

NextCalls == BuildPipeline \/ Forward \/ NumFrames

SpecCalls == Init /\ [][NextCalls]_vars

-----------------------------------------------------------------------------
(* Rational arithmetic of the properties.                                  *)

\* v = x for a sample v = num/den * B^(-e/2) and an integer x
ValueIs(v, x, B) ==
    /\ v.den # 0
    /\ IF v.e % 2 = 0 THEN v.num = x * v.den * IPow(B, v.e \div 2)
       ELSE IF B = 1 THEN v.num = x * v.den
       ELSE IF B = 4 THEN v.num = x * v.den * IPow(2, v.e)
       ELSE v.num = 0 /\ x = 0

\* num/den in lowest terms with a positive denominator
Lowest(a) ==
    LET g == GCD(Abs(a.num), Abs(a.den))
        sg == IF a.den < 0 THEN -1 ELSE 1
    IN IF g = 0 THEN [num |-> 0, den |-> 0]
       ELSE [num |-> sg * (a.num \div g), den |-> sg * (a.den \div g)]

\* a * b, cancelling across before multiplying
RatMul(a, b) ==
    LET g1 == Max(GCD(Abs(a.num), Abs(b.den)), 1)
        g2 == Max(GCD(Abs(b.num), Abs(a.den)), 1)
    IN [num |-> (a.num \div g1) * (b.num \div g2),
        den |-> (a.den \div g2) * (b.den \div g1)]

RatEq(a, b) == Lowest(a) = Lowest(b)

-----------------------------------------------------------------------------
(* Properties of the STFT functions (SpecStft).                            *)

\* the windows and hops of the round-trip property: sqrthann at 50% hop,
\* hann at any hop <= frame_len / 2
ConstantOverlapAdd(a) ==
    \/ a.window = "sqrthann" /\ 2 * a.frame_hop = a.frame_len
    \/ a.window = "hann" /\ 2 * a.frame_hop <= a.frame_len

\* the output samples (1-based) one hop away from both ends of the output
Interior(i, L, hop) == hop < i /\ i <= L - hop

\* C1: for an N x S waveform with S >= frame_len and a constant-overlap-add
\* window, inverse_stft(forward_stft(x, complex), complex) with the same
\* settings returns, at every interior sample index, the original sample.
C1_RoundTrip ==
    (fwd.st = "ok" /\ inv # None /\ Len(wav.shape) = 2 /\ ConstantOverlapAdd(args))
    => /\ inv.st = "ok"
       /\ \A r \in 1..Len(wav.rows) : \A i \in 1..Len(inv.s[r]) :
             Interior(i, Len(inv.s[r]), args.frame_hop)
             => ValueIs(inv.s[r][i], wav.rows[r][i],
                        FFTSize(args.frame_len, args.round_pow_of_two))

\* C8: forward fails when the rank of the waveform tensor is neither 2 nor 3
\* and when it has fewer samples than frame_len; otherwise it succeeds with
\* exactly floor((S - frame_len) / frame_hop) + 1 frames.
C8_ForwardShape ==
    fwd # None =>
       LET rank == Len(wav.shape)
           S == LastDim(wav.shape)
           W == args.frame_len
           H == args.frame_hop
       IN /\ rank \notin {2, 3} => fwd.st = "raise"
          /\ S < W => fwd.st = "raise"
          /\ (rank \in {2, 3} /\ S >= W) =>
                /\ fwd.st = "ok"
                /\ LET T == LastDim(fwd.shape) IN
                   /\ (T - 1) * H <= S - W /\ S - W < T * H
                   /\ \A r \in 1..Len(fwd.real) : \A k \in 1..Len(fwd.real[r]) :
                         Len(fwd.real[r][k]) = T /\ Len(fwd.imag[r][k]) = T

\* a multi-channel batch is transformed into several frames, the last hop
\* not filled
C8_Witness ==
    /\ fwd.st = "ok" /\ Len(wav.shape) = 3
    /\ LastDim(fwd.shape) >= 2
    /\ (LastDim(wav.shape) - args.frame_len) % args.frame_hop # 0

\* C10: where the overlap-added squared window is exactly zero the returned
\* sample is the raw overlap-added sample, elsewhere it is the raw sample
\* divided by it; no returned sample comes from a division by zero.
C10_ZeroDenominatorGuard ==
    inv.st = "ok" =>
       \A r \in 1..Len(inv.s) : \A i \in 1..Len(inv.s[r]) :
          LET s == inv.s[r][i]
              raw == inv.raw[r][i]
              norm == inv.norm[i]
          IN /\ s.den # 0
             /\ norm.num = 0 => s = raw
             /\ norm.num # 0 => RatEq(RatMul(s, norm), raw) /\ s.e = raw.e

\* a hop above the frame length: uncovered samples beside divided ones
C10_Witness ==
    /\ inv.st = "ok" /\ args.frame_hop > args.frame_len
    /\ \E i \in 1..Len(inv.norm) : inv.norm[i].num = 0
    /\ \E i \in 1..Len(inv.norm) : inv.norm[i].num # 0 /\ inv.raw[1][i].num # 0

-----------------------------------------------------------------------------
(* Properties of the STFT / iSTFT layers (SpecLayer).                      *)

\* C20: for every FFT size B the engine can be built with (a power of two,
\* or any frame_len, even or odd, when round_pow_of_two is off), the inverse
\* STFT extends a one-sided input of B/2+1 bins to exactly B real and B
\* imaginary planes (2B packed planes, as the kernel has): for k in
\* B/2+1 .. B-1 the real part at k is the real part at B-k and the imaginary
\* part at k is minus the imaginary part at B-k, and bins 0..B/2 are left
\* as given.
C20_OneSidedMirroring ==
    (inv # None /\ args.onesided /\ Len(fwd.shape) = 3)
    => LET B == FFTSize(args.frame_len, args.round_pow_of_two) IN
       /\ inv.st = "ok"
       /\ \A r \in 1..Len(fwd.real) :
             /\ Len(inv.real[r]) = B /\ Len(inv.imag[r]) = B
             /\ \A k \in 0..(B \div 2) :
                   /\ inv.real[r][k + 1] = fwd.real[r][k + 1]
                   /\ inv.imag[r][k + 1] = fwd.imag[r][k + 1]
             /\ \A k \in (B \div 2 + 1)..(B - 1) :
                   /\ inv.real[r][k + 1] = inv.real[r][B - k + 1]
                   /\ \A t \in 1..Len(inv.imag[r][k + 1]) :
                         inv.imag[r][k + 1][t] = -inv.imag[r][B - k + 1][t]

\* the power of two that is >= n while its half is not
PowerOfTwoAbove(n) ==
    CHOOSE q \in {IPow(2, k) : k \in 0..10} : q >= n /\ (q = 1 \/ q \div 2 < n)

\* C9: with B the next power of two >= frame_len when round_pow_of_two and
\* frame_len otherwise, every layer reports num_bins = B/2 + 1 if onesided
\* and B if not; frame_len = 400 rounded gives B = 512 and 257 bins.
C9_NumBins ==
    (eng # None /\ eng.self.st = "ok") =>
       LET B == IF eng.a.round_pow_of_two THEN PowerOfTwoAbove(eng.a.frame_len)
                ELSE eng.a.frame_len
       IN /\ eng.self.num_bins = IF eng.a.onesided THEN B \div 2 + 1 ELSE B
          /\ (eng.a.frame_len = 400 /\ eng.a.round_pow_of_two) => B = 512
          /\ (eng.a.frame_len = 400 /\ eng.a.round_pow_of_two /\ eng.a.onesided)
                => eng.self.num_bins = 257

\* C6: every accepted sample count S gives floor((S - frame_len)/frame_hop)
\* + 1 frames, at least 1; 16000 samples in frames of 400 by 160 give 98.
C6_FrameCount ==
    (nf # None /\ nf.res.st = "ok") =>
       \A i \in 1..Len(nf.call) :
          LET S == nf.call[i]
              W == eng.a.frame_len
              H == eng.a.frame_hop
              n == nf.res.val[i]
          IN /\ n >= 1
             /\ (n - 1) * H <= S - W /\ S - W < n * H
             /\ (S = 16000 /\ W = 400 /\ H = 160) => n = 98

C6_Witness ==
    /\ nf # None /\ nf.res.st = "ok"
    /\ eng.a.frame_len = 400 /\ eng.a.frame_hop = 160
    /\ nf.call = <<16000>> /\ nf.res.val = <<98>>

\* C7: num_frames on a vector of sample counts fails, returning no frame
\* count, if and only if a count is <= frame_len, and the error reports the
\* offending counts.
C7_InsufficientSamples ==
    nf # None =>
       LET bad == {i \in 1..Len(nf.call) : nf.call[i] <= eng.a.frame_len} IN
       /\ nf.res.st = "raise" <=> bad # {}
       /\ nf.res.st = "raise" =>
             /\ "val" \notin DOMAIN nf.res
             /\ \A i \in bad : \E j \in 1..Len(nf.res.info.num_samples) :
                   nf.res.info.num_samples[j] = nf.call[i]

\* a batch with one utterance of exactly frame_len samples beside a long one
C7_Witness ==
    /\ nf # None /\ nf.res.st = "raise" /\ Len(nf.call) = 2
    /\ nf.call[1] = eng.a.frame_len /\ nf.call[2] > eng.a.frame_len

-----------------------------------------------------------------------------
(* Properties of the FeatureTransform pipeline (SpecPipe).                 *)

\* the positions of the dashes of a string, and the d-th of them
DashPos(str) == {i \in 1..Len(str) : str[i] = "-"}

NthDash(str, d) ==
    CHOOSE i \in DashPos(str) : Cardinality({j \in DashPos(str) : j <= i}) = d

\* the tokens of a string: what stands between consecutive dashes, the ends
\* of the string counting as dashes; nothing between two of them is ""
TokensOf(str) ==
    LET k == Cardinality(DashPos(str))
        lo(j) == IF j = 1 THEN 0 ELSE NthDash(str, j - 1)
        hi(j) == IF j = k + 1 THEN Len(str) + 1 ELSE NthDash(str, j)
    IN [j \in 1..(k + 1) |-> IF hi(j) = lo(j) + 1 THEN "" ELSE str[lo(j) + 1]]

\* the width the rules of C2 give, read from the last token back
RECURSIVE RuleDim(_, _)
RuleDim(toks, p) ==
    IF toks = <<>> THEN 0
    ELSE LET last == toks[Len(toks)]
             rest == SubSeq(toks, 1, Len(toks) - 1)
         IN CASE last = "spectrogram" ->
                   (IF p.round_pow_of_two THEN PowerOfTwoAbove(p.frame_len)
                    ELSE p.frame_len) \div 2 + 1
              [] last \in {"fbank", "mel"} -> p.num_mels
              [] last = "dct" -> p.num_ceps
              [] last = "splice" -> RuleDim(rest, p) * (1 + p.lctx + p.rctx)
              [] last = "delta" -> RuleDim(rest, p) * (1 + p.delta_order)
              [] last \in {"log", "cmvn", "aug", "abs"} -> RuleDim(rest, p)

Str(toks) ==
    [i \in 1..(2 * Len(toks) - 1) |-> IF i % 2 = 1 THEN toks[(i + 1) \div 2] ELSE "-"]

\* C2: feats_dim follows the tokens left to right: spectrogram sets
\* num_bins, fbank and mel num_mels, dct num_ceps, splice multiplies by
\* 1+lctx+rctx, delta by 1+delta_order, log, cmvn, aug and abs keep it;
\* downsample_rate is ds_rate if a splice token occurs, else 1.
\* "fbank-log-cmvn" with 80 mels gives 80 and 1; "fbank-log-splice" with
\* lctx = rctx = 1 and ds_rate = 2 gives 240 and 2.
C2_DimensionTracking ==
    (pipe # None /\ pipe.self.st = "ok") =>
       LET toks == TokensOf(pipe.feats)
           ruled == \A i \in 1..Len(toks) : toks[i] \in Tokens \ {"mfcc"}
           splice == \E i \in 1..Len(toks) : toks[i] = "splice"
       IN /\ ruled =>
               /\ pipe.self.feats_dim = RuleDim(toks, pipe.p)
               /\ pipe.self.downsample_rate = IF splice THEN pipe.p.ds_rate ELSE 1
          /\ (pipe.feats = Str(<<"fbank", "log", "cmvn">>) /\ pipe.p.num_mels = 80)
               => pipe.self.feats_dim = 80 /\ pipe.self.downsample_rate = 1
          /\ (/\ pipe.feats = Str(<<"fbank", "log", "splice">>)
              /\ pipe.p.num_mels = 80 /\ pipe.p.lctx = 1 /\ pipe.p.rctx = 1
              /\ pipe.p.ds_rate = 2)
               => pipe.self.feats_dim = 240 /\ pipe.self.downsample_rate = 2

C2_Witness ==
    /\ pipe # None /\ pipe.self.st = "ok"
    /\ pipe.feats = Str(<<"fbank", "log", "splice">>)
    /\ pipe.p.num_mels = 80 /\ pipe.p.lctx = 1 /\ pipe.p.rctx = 1 /\ pipe.p.ds_rate = 2
    /\ pipe.self.feats_dim = 240 /\ pipe.self.downsample_rate = 2

\* C3: whenever forward succeeds, the width of the last axis of the returned
\* features is the feats_dim recorded at construction.  Stated for the
\* chains that start from the waveform (spectrogram, fbank or mfcc first)
\* with lctx, rctx and delta_order >= 0.
C3_WidthIsFeatsDim ==
    (/\ out # None /\ out.res.st = "ok"
     /\ TokensOf(pipe.feats)[1] \in {"spectrogram", "fbank", "mfcc"}
     /\ pipe.p.lctx >= 0 /\ pipe.p.rctx >= 0 /\ pipe.p.delta_order >= 0)
    => LastDim(out.res.feats_pad) = pipe.self.feats_dim

\* C4: if a token of feats.split("-") is not a stage name (the empty token
\* of an empty string, of a leading or trailing "-" or of "--" included),
\* the constructor fails with an error naming that token and builds no
\* pipeline; "fbank-unknown" fails naming "unknown".
C4_UnknownToken ==
    pipe # None =>
       LET toks == TokensOf(pipe.feats)
           bad == {i \in 1..Len(toks) : toks[i] \notin Tokens}
           first == CHOOSE i \in bad : \A j \in bad : i <= j
       IN /\ bad # {} =>
               /\ pipe.self.st = "raise"
               /\ "transform" \notin DOMAIN pipe.self
               /\ pipe.self.err = "Unknown token"
               /\ pipe.self.info.tok = toks[first]
               /\ pipe.self.info.feats = pipe.feats
          /\ pipe.feats = Str(<<"fbank", "unknown">>)
               => pipe.self.st = "raise" /\ pipe.self.info.tok = "unknown"

\* a trailing "-": the empty token is the one named
C4_Witness ==
    /\ pipe # None /\ pipe.feats = <<"fbank", "-">>
    /\ pipe.self.st = "raise" /\ pipe.self.info.tok = ""

\* C5: forward returns None for the frame lengths when x_len is None, with
\* no check of the sample counts; otherwise frame_lengths[n] =
\* (floor((x_len[n] - frame_len) / frame_hop) + 1) // downsample_rate.
C5_FrameLengths ==
    out # None =>
       LET W == pipe.p.frame_len
           H == pipe.p.frame_hop
           D == pipe.self.downsample_rate
       IN /\ out.x_len = None =>
               /\ out.res.st = "ok" => out.res.feats_len = None
               /\ out.res.st = "raise" => out.res.err # "Audio samples less than frame_len"
          /\ (out.x_len # None /\ out.res.st = "ok") =>
               /\ Len(out.res.feats_len.val) = Len(out.x_len.val)
               /\ \A n \in 1..Len(out.x_len.val) :
                     LET q == out.res.feats_len.val[n] IN
                     \E T \in (q * D)..(q * D + D - 1) :
                        /\ (T - 1) * H <= out.x_len.val[n] - W
                        /\ out.x_len.val[n] - W < T * H

\* frame lengths returned after a decimation that rounds down
C5_Witness ==
    /\ out # None /\ out.res.st = "ok" /\ out.x_len # None
    /\ pipe.self.downsample_rate = 2
    /\ \E n \in 1..Len(out.x_len.val) :
          /\ out.res.feats_len.val[n] >= 1
          /\ ((out.x_len.val[n] - pipe.p.frame_len) \div pipe.p.frame_hop + 1) % 2 = 1

\* C17: downsample_rate is the cumulative time decimation of the built
\* chain: the product over the stages of ds_rate for a splice stage and 1 for
\* any other, so a chain with k splice stages has downsample_rate = ds_rate^k.
C17_CumulativeDecimation ==
    (pipe # None /\ pipe.self.st = "ok")
    => LET toks == TokensOf(pipe.feats)
           k == Cardinality({i \in 1..Len(toks) : toks[i] = "splice"})
       IN /\ pipe.self.downsample_rate = IPow(pipe.p.ds_rate, k)
          /\ pipe.self.downsample_rate =
                ProdSeq([i \in 1..Len(pipe.self.transform) |->
                           IF pipe.self.transform[i].kind = "SpliceTransform"
                           THEN pipe.self.transform[i].rate ELSE 1])

-----------------------------------------------------------------------------
(* Properties of the single stages (SpecStage).                            *)

\* C11: SpecAugTransform.forward returns its input unchanged, for an input
\* of any rank, when p = 0 (in training or evaluation mode) and whenever the
\* module is not in training mode (for any p).
C11_SpecAugNoOp ==
    (/\ stg # None /\ stg.op = "SpecAugTransform.forward"
     /\ stg.p = 0 \/ ~stg.training)
    => /\ stg.res.st = "ok"
       /\ stg.res.same
       /\ stg.res.shape = stg.x.shape
       /\ stg.res.val = stg.x.val

\* a training-mode call with p = 0 on a multi-channel input, and an
\* evaluation-mode call with p = 1 are two of the cases
C11_Witness ==
    /\ stg # None /\ stg.op = "SpecAugTransform.forward"
    /\ \/ stg.p = 0 /\ stg.training /\ Len(stg.x.shape) = 4
       \/ stg.p = 100 /\ ~stg.training /\ Len(stg.x.shape) = 5
    /\ stg.res.st = "ok" /\ stg.res.same

\* C12: for every input of width F and T frames and every order >= 0,
\* DeltaTransform.forward returns T frames of width exactly (1 + order) * F
\* whose first F columns are the unmodified input; order 2 gives exactly
\* three times the input width.
C12_DeltaShape ==
    (stg # None /\ stg.op = "DeltaTransform.forward" /\ stg.order >= 0)
    => LET T == Len(stg.x)
           F == Len(stg.x[1])
       IN /\ stg.res.st = "ok"
          /\ Len(stg.res.rows) = T
          /\ \A t \in 1..T :
                /\ Len(stg.res.rows[t]) = (1 + stg.order) * F
                /\ stg.order = 2 => Len(stg.res.rows[t]) = 3 * F
                /\ \A f \in 1..F :
                      stg.res.rows[t][f] = [num |-> stg.x[t][f], den |-> 1]

\* an order-2 call on a two-column input of several frames
C12_Witness ==
    /\ stg # None /\ stg.op = "DeltaTransform.forward"
    /\ stg.order = 2 /\ Len(stg.x) >= 3 /\ Len(stg.x[1]) = 2
    /\ Len(stg.res.rows[1]) = 6

\* the slope of column 1 of a matrix of at least two frames
Slope(x) == x[2][1] - x[1][1]

\* column 1 is a*t + b with a # 0
IsRamp(x) ==
    /\ Len(x) >= 2 /\ Slope(x) # 0
    /\ \A t \in 1..Len(x) : x[t][1] = x[1][1] + Slope(x) * (t - 1)

\* C13: for an input x[t] = a*t + b (a # 0) over T frames, the order-1 delta
\* band of DeltaTransform is the same non-zero constant a at every frame t.
C13_DeltaOnRamp ==
    (/\ stg # None /\ stg.op = "DeltaTransform.forward" /\ stg.order >= 1
     /\ IsRamp(stg.x))
    => \A t \in 1..Len(stg.x) :
          LET d == stg.res.rows[t][Len(stg.x[1]) + 1]
          IN d.den # 0 /\ d.num = Slope(stg.x) * d.den

\* C14: init_window fails for every family name outside rect, hann, hamm,
\* blackman, bartlett and sqrthann; for each of the six it returns exactly
\* frame_len coefficients; the same inputs always give the same window.
C14_InitWindow ==
    (stg # None /\ stg.op = "init_window")
    => /\ stg.wnd \notin {"rect", "hann", "hamm", "blackman", "bartlett", "sqrthann"}
            => stg.res.st = "raise" /\ stg.res.info = stg.wnd
       /\ stg.wnd \in {"rect", "hann", "hamm", "blackman", "bartlett", "sqrthann"}
            => stg.res.st = "ok" /\ Len(stg.res.num) = stg.frame_len
       /\ (/\ stg.prev # None /\ stg.prev.wnd = stg.wnd
           /\ stg.prev.frame_len = stg.frame_len)
            => stg.prev.res = stg.res

\* a window of six coefficients returned a second time
C14_Witness ==
    /\ stg # None /\ stg.op = "init_window"
    /\ stg.wnd = "blackman" /\ stg.frame_len = 6
    /\ stg.res.st = "ok" /\ Len(stg.res.num) = 6
    /\ stg.prev # None /\ stg.prev.wnd = stg.wnd /\ stg.prev.frame_len = 6

\* C16: whenever SpecAugTransform.forward is invoked in training mode on a
\* rank-4 (N x C x T x F) input it signals an unsupported-shape error and
\* returns nothing, whatever the random masking decision.
C16_MultiChannelRejected ==
    (/\ stg # None /\ stg.op = "SpecAugTransform.forward"
     /\ stg.training /\ Len(stg.x.shape) = 4)
    => /\ stg.res.st = "raise"
       /\ stg.res.err = "Not supported for multi-channel"

\* sin(pi*k/lifter) as m * sqrt(rad) / 2, for lifter in 1..3
SinPiOver(k, lifter) ==
    CASE lifter = 1 -> [m |-> 0, rad |-> 1]
      [] lifter = 2 -> [m |-> <<0, 2, 0, -2>>[(k % 4) + 1], rad |-> 1]
      [] lifter = 3 -> [m |-> <<0, 1, 1, 0, -1, -1>>[(k % 6) + 1], rad |-> 3]

\* C19: with lifter = 0 (the default) the cepstral-lifter vector is all
\* ones, so the output of DiscreteCosineTransform is the plain DCT
\* projection and holds no undefined value; for lifter > 0 entry k
\* (k = 1..num_ceps) of the vector is 1 + (lifter/2) * sin(pi*k/lifter).
C19_LifterVector ==
    (stg # None /\ stg.op = "DiscreteCosineTransform.forward")
    => LET L == stg.self.lifter IN
       \A k \in 1..stg.self.num_ceps :
          LET c == stg.cepstral_lifter[k] IN
          /\ L = 0 =>
               /\ ~c.nan /\ c.num = 0
               /\ stg.res.st = "ok" => ~stg.res.f[k].times.nan /\ stg.res.f[k].times.num = 0
          /\ L > 0 =>
               /\ ~c.nan
               /\ c.num * 4 = L * SinPiOver(k, L).m * c.den
               /\ c.num # 0 => c.rad = SinPiOver(k, L).rad

-----------------------------------------------------------------------------
(* Properties of a pipeline called repeatedly (SpecCalls).                 *)

NoActiveAug(c) == ~HasAug(pipe.self) \/ pipe.p.aug_prob = 0 \/ ~c.training

\* C18: for a pipeline with no active augmentation (no aug stage, or
\* aug_prob = 0, or evaluation mode), two forward calls with equal waveform
\* values and equal sample lengths return equal features and equal frame
\* lengths, whatever calls were made before or between them.
C18_Deterministic ==
    (/\ Len(hist) = 2
     /\ hist[1].op = "forward" /\ hist[2].op = "forward"
     /\ NoActiveAug(hist[1]) /\ NoActiveAug(hist[2])
     /\ hist[1].x_pad = hist[2].x_pad /\ hist[1].x_len = hist[2].x_len)
    => hist[1].res = hist[2].res

\* an evaluation-mode call and, after other calls, a training-mode call on
\* a pipeline whose aug stage has p = 0, both returning features and frame
\* lengths
C18_Witness ==
    /\ Len(hist) = 2 /\ hist[1].between
    /\ hist[1].op = "forward" /\ hist[2].op = "forward"
    /\ HasAug(pipe.self) /\ pipe.p.aug_prob = 0
    /\ ~hist[1].training /\ hist[2].training
    /\ hist[1].x_pad = hist[2].x_pad /\ hist[1].x_len = hist[2].x_len
    /\ hist[2].res.st = "ok" /\ hist[2].res.feats_len # None
    /\ hist[1].res = hist[2].res

-----------------------------------------------------------------------------
(* Further properties of the single stages and helpers (SpecStage).        *)

\* C21: init_kernel scales the DFT basis by 1/sqrt(B) when normalized
\* (forward and inverse alike), by 1/B when inverse and not normalized and
\* by 1 when forward and not normalized, so that for either setting of
\* normalized the forward and inverse factors multiply to 1/B; the kernel has
\* shape [2B, 1, frame_len], B the next power of two >= frame_len if
\* round_pow_of_two, else frame_len.  A scale B^(-e/2) is held as e.
C21_KernelScaling ==
    (stg # None /\ stg.op = "init_kernel")
    => LET B == IF stg.round_pow_of_two THEN PowerOfTwoAbove(stg.frame_len)
                ELSE stg.frame_len
       IN /\ stg.K.shape = <<2 * B, 1, stg.frame_len>>
          /\ stg.normalized => stg.K.e = 1
          /\ (stg.inverse /\ ~stg.normalized) => stg.K.e = 2
          /\ (~stg.inverse /\ ~stg.normalized) => stg.K.e = 0
          /\ (/\ stg.prev # None /\ stg.prev.inverse # stg.inverse
              /\ stg.prev.normalized = stg.normalized)
               => stg.K.e + stg.prev.K.e = 2

\* a normalized forward kernel and then the normalized inverse kernel of
\* the 25 ms frame
C21_Witness ==
    /\ stg # None /\ stg.op = "init_kernel"
    /\ stg.frame_len = 400 /\ stg.round_pow_of_two /\ stg.normalized /\ stg.inverse
    /\ stg.K.shape = <<1024, 1, 400>>
    /\ stg.prev # None /\ ~stg.prev.inverse /\ stg.prev.normalized
    /\ stg.K.e + stg.prev.K.e = 2

\* C22: for an input of T frames and width F, context (lctx, rctx) and
\* stride ds_rate, output frame j of SpliceTransform.forward (t = j * ds_rate
\* before decimation) is the concatenation, for c = -lctx .. rctx in that
\* order, of input frame clamp(t + c, 0, T - 1): neighbours outside the
\* sequence are the first or the last input frame; the output width is
\* (1 + lctx + rctx) * F and the kept frames are t = 0, ds_rate, 2*ds_rate, ...
C22_SpliceGathering ==
    (stg # None /\ stg.op = "SpliceTransform.forward")
    => LET T == Len(stg.x)
           F == Len(stg.x[1])
       IN /\ stg.res.st = "ok"
          /\ \A j \in 1..Len(stg.res.rows) :
                LET t == (j - 1) * stg.ds_rate IN
                /\ t <= T - 1
                /\ Len(stg.res.rows[j]) = (1 + stg.lctx + stg.rctx) * F
                /\ \A k \in 0..(stg.lctx + stg.rctx) : \A f \in 1..F :
                      LET c == k - stg.lctx
                          n == IF t + c < 0 THEN 0
                               ELSE IF t + c > T - 1 THEN T - 1 ELSE t + c
                      IN stg.res.rows[j][k * F + f] = stg.x[n + 1][f]

\* C30: for every input of T frames and every ds_rate >= 1,
\* SpliceTransform.forward returns the same number of frames whether
\* lctx + rctx = 0 or lctx + rctx > 0, and that number is floor(T / ds_rate).
C30_SpliceLength ==
    (stg # None /\ stg.op = "SpliceTransform.forward")
    => Len(stg.res.rows) = Len(stg.x) \div stg.ds_rate

\* the regression of the reference on one column, before the division:
\* sum over i = 1..ctx of i * (x[min(t + i, T - 1)] - x[max(t - i, 0)])
RefDelta(x, ctx) ==
    LET T == Len(x) IN
    [t \in 1..T |->
        SumSeq([i \in 1..ctx |->
            i * (x[IF t + i < T THEN t + i ELSE T] - x[IF t - i > 1 THEN t - i ELSE 1])])]

\* the reference applied k times, each time to the band before it
RECURSIVE RefBand(_, _, _)
RefBand(x, ctx, k) == IF k = 0 THEN x ELSE RefDelta(RefBand(x, ctx, k - 1), ctx)

\* C23: for every T >= 1 (T <= ctx included), every ctx >= 1 and every frame
\* t, the slice-based _add_delta equals the reference d[t] = (sum over
\* i = 1..ctx of i * (x[min(t+i, T-1)] - x[max(t-i, 0)])) / (2 * sum of i^2),
\* and band k of DeltaTransform.forward is this operator applied to band
\* k - 1, not to the input, for every k = 1..order.
C23_DeltaReference ==
    (stg # None /\ stg.op = "DeltaTransform.forward")
    => LET T == Len(stg.x)
           F == Len(stg.x[1])
           den == (stg.ctx * (stg.ctx + 1) * (2 * stg.ctx + 1)) \div 3
       IN /\ stg.res.st = "ok"
          /\ Len(stg.res.rows) = T
          /\ \A t \in 1..T : \A k \in 1..stg.order : \A f \in 1..F :
                stg.res.rows[t][k * F + f]
                   = [num |-> RefBand(Col(stg.x, f), stg.ctx, k)[t],
                      den |-> IPow(den, k)]

C23_Witness ==
    /\ stg # None /\ stg.op = "DeltaTransform.forward"
    /\ Len(stg.x) = 2 /\ stg.ctx = 2 /\ stg.order = 2
    /\ Len(stg.x[1]) = 1
    /\ stg.res.st = "ok"
    /\ stg.res.rows[1][2] = [num |-> 3, den |-> 10]
    /\ stg.res.rows[2][2] = [num |-> 3, den |-> 10]
    /\ stg.res.rows[1][3].num = 0

\* the number e = (num / den) / d is the integer v
ElemIs(e, v) ==
    CASE e.div.k = "one" -> e.num = v * e.den
      [] e.div.k = "EPSILON" -> e.num = 0 /\ v = 0
      [] e.div.k = "sqrt" ->
           /\ e.num * e.num * e.div.sden = v * v * e.den * e.den * e.div.snum
           /\ (e.num > 0) = (v > 0)

\* C24: stages are pure with respect to their input: after
\* CmvnTransform.forward(x) returns, with norm_mean and/or norm_var on, the
\* caller's tensor x holds the same values as before the call, and the
\* normalized values are delivered only through the tensor returned.
C24_CmvnKeepsInput ==
    (stg # None /\ stg.op = "CmvnTransform.forward"
       /\ (stg.norm_mean \/ stg.norm_var))
    => /\ stg.res.st = "ok"
       /\ \A t \in 1..Len(stg.x) : \A f \in 1..Len(stg.x[t]) :
             ElemIs(stg.res.after[t][f], stg.x[t][f])

\* C25: SpecAugment takes its masking decision per utterance: in training
\* mode with 0 < p < 1, for a batch of N >= 2 utterances every combination of
\* masked / unmasked utterances is a possible outcome of a single forward
\* call (one utterance can be masked while another is returned unmodified).
C25_PerUtteranceDecision ==
    (stg # None /\ stg.op = "SpecAugTransform.forward" /\ stg.training
       /\ stg.p > 0 /\ stg.p < 100
       /\ Len(stg.x.shape) = 3 /\ stg.x.shape[1] >= 2)
    => /\ AugMasked(stg.x, stg.training, stg.coin)
             \in AugPatterns(SpecAugTransform(stg.p), stg.x, stg.training)
       /\ \A pat \in [1..stg.x.shape[1] -> BOOLEAN] :
             pat \in AugPatterns(SpecAugTransform(stg.p), stg.x, stg.training)

\* ---------------------------------------------------------------------------
\* Further properties of the pipeline (SpecPipe)
\* ---------------------------------------------------------------------------

\* the last axis of what the stage returns for an input of width F
WidthAfter(stage, F) == LastDim(StageForward(stage, <<1, 4, F>>, FALSE, FALSE).shape)

\* C26: each stage's reported dimension effect matches what its forward does
\* and what the pipeline builder applies: Spectrogram.dim() = num_bins,
\* Mel.dim() = num_mels, DCT.dim() = num_ceps, Log/CMVN dim_scale() = 1,
\* Splice.dim_scale() = 1 + lctx + rctx and Delta.dim_scale() = 1 + order,
\* each equal to the ratio (or value) of the actual output width and to the
\* factor FeatureTransform uses for that token.
C26_DimEffect ==
    (pipe # None /\ pipe.self.st = "ok"
       /\ pipe.p.lctx >= 0 /\ pipe.p.rctx >= 0 /\ pipe.p.delta_order >= 0)
    => \A i \in 1..Len(pipe.self.transform) :
          LET stage == pipe.self.transform[i]
              p == pipe.p
          IN CASE stage.kind = "SpectrogramTransform" ->
                    /\ Dim(stage) = stage.stft.num_bins
                    /\ LastDim(StageForward(stage, <<1, p.frame_len + p.frame_hop>>,
                                            FALSE, FALSE).shape) = Dim(stage)
               [] stage.kind = "MelTransform" ->
                    /\ Dim(stage) = p.num_mels
                    /\ WidthAfter(stage, stage.num_bins) = Dim(stage)
               [] stage.kind = "DiscreteCosineTransform" ->
                    /\ Dim(stage) = p.num_ceps
                    /\ WidthAfter(stage, p.num_mels) = Dim(stage)
               [] stage.kind \in {"LogTransform", "CmvnTransform"} ->
                    /\ dim_scale(stage) = 1
                    /\ WidthAfter(stage, 6) = 6 * dim_scale(stage)
               [] stage.kind = "SpliceTransform" ->
                    /\ dim_scale(stage) = 1 + p.lctx + p.rctx
                    /\ WidthAfter(stage, 6) = 6 * dim_scale(stage)
                    /\ SpliceDim(6, p.lctx, p.rctx) = 6 * dim_scale(stage)
               [] stage.kind = "DeltaTransform" ->
                    /\ dim_scale(stage) = 1 + p.delta_order
                    /\ WidthAfter(stage, 6) = 6 * dim_scale(stage)
                    /\ DeltaDim(6, p.delta_order) = 6 * dim_scale(stage)
               [] OTHER -> TRUE

\* C28: for every successfully built pipeline (any number of splice stages,
\* any lctx / rctx / ds_rate) and every batch padded to S samples with
\* lengths frame_len < x_len[n] <= S, each frame_lengths[n] returned by
\* FeatureTransform.forward is at most the size of the time axis of the
\* returned features.
C28_LengthsWithinFeatures ==
    (/\ out # None /\ out.res.st = "ok" /\ out.x_len # None
     /\ \A n \in 1..Len(out.x_len.val) :
           /\ pipe.p.frame_len < out.x_len.val[n]
           /\ out.x_len.val[n] <= LastDim(out.x_pad))
    => /\ out.res.feats_len # None
       /\ \A n \in 1..Len(out.res.feats_len.val) :
             out.res.feats_len.val[n]
                <= out.res.feats_pad[Len(out.res.feats_pad) - 1]

\* C29: for any sequence of recognized tokens accepted by the constructor,
\* whatever its first token (mel, log, abs or cmvn first, say),
\* FeatureTransform.forward with sample lengths all > frame_len returns frame
\* lengths rather than failing because the first stage has no frame-count
\* rule.
C29_FrameCountRuleDefined ==
    (/\ out # None /\ out.x_len # None
     /\ \A n \in 1..Len(out.x_len.val) : out.x_len.val[n] > pipe.p.frame_len)
    => ~(out.res.st = "raise" /\ out.res.err = "AttributeError: len")

\* ---------------------------------------------------------------------------
\* Further properties of the layers (SpecLayer)
\* ---------------------------------------------------------------------------

\* C27: num_frames agrees with the transform: for every sample count S for
\* which STFT forward on an S-sample utterance succeeds (S >= frame_len),
\* num_frames(S) also succeeds and returns exactly the number of frames on
\* the time axis of forward's output.
C27_NumFramesAgrees ==
    (/\ nf # None /\ "wav" \in DOMAIN nf /\ nf.fwd.st = "ok"
     /\ \A i \in 1..Len(nf.call) : nf.call[i] = LastDim(nf.wav))
    => /\ LastDim(nf.wav) >= eng.a.frame_len
       /\ nf.res.st = "ok"
       /\ \A i \in 1..Len(nf.call) : nf.res.val[i] = LastDim(nf.fwd.shape)

====
